---- MODULE Spec2Model ----
(***************************************************************************)
(* A2A_with_DID: DID based agent-to-agent authentication.                  *)
(*                                                                         *)
(* The model covers the policy engine (policy.js), the credential issuer   *)
(* (issuer.js) and the server's /a2a/authenticate handler (2_server.js,    *)
(* kept in src/unnamed/part_001).  Times are JavaScript epoch              *)
(* milliseconds (Date.now()).                                              *)
(***************************************************************************)
EXTENDS Integers, Sequences, FiniteSets

VARIABLES
    now,        \* the wall clock, Date.now() in milliseconds
    policies,   \* PolicyValidator.policies (policy.js:12-21)
    call,       \* the last direct call of a PolicyValidator method and its result
    wallet,     \* the credential JWT the issuer has handed out (NoJwt: none yet)
    att,        \* the /a2a/authenticate request being served
    task,       \* the /ai/task request being served and its response
    server,     \* the server process: its identity, signer, credential, presentation, issuer
    client,     \* the client run: 3_client.js run() or the browser's startAuthentication()
    reqs,       \* the requests the server is serving side by side, by slot
    boot,       \* the startup of 2_server.js and the agent cards it has served
    fetches,    \* the calls of 3_client.js's customFetch in one run
    test,       \* the run of test_all.js and the three processes it spawns
    page        \* the browser page around startAuthentication(): the start button, the /ai/task requests sent

vars == <<now, policies, call, wallet, att, task, server, client, reqs, boot, fetches, test, page>>

-----------------------------------------------------------------------------
(* Bounds of the model *)

\* The first clock reading; not a multiple of 1000 so that Math.floor matters.
Epoch == 1500
\* The most credentials one presentation embeds.
MaxCreds == 2
\* The most requests the server serves side by side.
MaxReq == 2
\* The most agent cards followed after the server process has started.
MaxCards == 2
\* The most requests one run of the client hands to its interceptor.
MaxFetch == 3
\* The clock readings of a run: 10 s after Epoch, and the readings around
\* the freshness window of a credential issued at Epoch.
ClockValues ==
    { Epoch, Epoch + 10000, Epoch + 3599000, Epoch + 3600000,
      Epoch + 3600001, Epoch + 3601000 }

Holders == {"did:H1", "did:H2"}

-----------------------------------------------------------------------------
(* JavaScript values *)

\* undefined, for a string-valued property
Undef == "<undefined>"

\* a value is truthy unless it is undefined or the empty string
Truthy(s) == s \notin {Undef, ""}

\* claims.type: absent (or falsy), a list of type tags, or a truthy value
\* that is not a list and has no includes method (a number, a plain object)
NoType == [has |-> FALSE, list |-> FALSE, tags |-> <<>>]
TypeList(tags) == [has |-> TRUE, list |-> TRUE, tags |-> tags]
TypeNotAList == [has |-> TRUE, list |-> FALSE, tags |-> <<>>]

\* credentialSubject.issuedAt: absent, an ISO-8601 string as written by
\* Date.prototype.toISOString (millisecond precision), or some other string
NoDate == [kind |-> "absent", ms |-> 0]
BadDate == [kind |-> "invalid", ms |-> 0]
ToISOString(t) == [kind |-> "iso", ms |-> t]

\* new Date(s).getTime(): the milliseconds of an ISO string, NaN otherwise
IsNaNDate(d) == d.kind # "iso"
DateGetTime(d) == d.ms

NoTaskLog == [has |-> FALSE, action |-> Undef]
TaskLog(action) == [has |-> TRUE, action |-> action]

\* credentialSubject: absent, the subject of a TaskLog credential, or the
\* subject of a ServiceEndpoint credential
NoSubject ==
    [ has |-> FALSE, id |-> Undef, taskLog |-> NoTaskLog, serviceEndpoint |-> Undef,
      issuedAt |-> NoDate ]
Subject(id, taskLog, issuedAt) ==
    [ has |-> TRUE, id |-> id, taskLog |-> taskLog, serviceEndpoint |-> Undef,
      issuedAt |-> issuedAt ]
ServiceSubject(id, serviceInfo, issuedAt) ==
    [ has |-> TRUE, id |-> id, taskLog |-> NoTaskLog, serviceEndpoint |-> serviceInfo,
      issuedAt |-> issuedAt ]

NoVc == [has |-> FALSE, type |-> NoType, credentialSubject |-> NoSubject]

\* a claims object: the decoded credential the policy engine is handed
Claims(type, cs, vc) ==
    [null |-> FALSE, type |-> type, credentialSubject |-> cs, vc |-> vc]

\* null or undefined in the place of the claims object
NullClaims ==
    [null |-> TRUE, type |-> NoType, credentialSubject |-> NoSubject, vc |-> NoVc]

\* property names every object inherits from Object.prototype
InheritedKeys == {"constructor", "toString"}

\* key in credentialSubject (own or inherited property)
HasKey(cs, key) ==
    \/ key \in InheritedKeys
    \/ cs.has /\ key = "id" /\ cs.id # Undef
    \/ cs.has /\ key = "taskLog" /\ cs.taskLog.has
    \/ cs.has /\ key = "serviceEndpoint" /\ cs.serviceEndpoint # Undef
    \/ cs.has /\ key = "issuedAt" /\ cs.issuedAt.kind # "absent"

\* Array.prototype.includes
Includes(seq, x) == \E i \in 1..Len(seq) : seq[i] = x

-----------------------------------------------------------------------------
(* policy.js: PolicyValidator *)

MaxVCAge == 3600
ExpiresIn == 3600

\* this.policies as the constructor sets it
PolicyRules ==
    [ requiredVCTypes |-> <<"TaskLogCredential">>,
      allowedActions |-> <<"OrderPizza", "QueryStatus", "UpdateProfile">>,
      maxVCAge |-> MaxVCAge ]

\* one entry of the errors list
Violation(rule, detail, n) == [rule |-> rule, detail |-> detail, n |-> n]

\* claims.type || claims.vc?.type || []
VcTypes(claims) ==
    IF claims.type.has THEN claims.type.tags
    ELSE IF claims.vc.has /\ claims.vc.type.has THEN claims.vc.type.tags
    ELSE <<>>

\* whether vcTypes has an includes method (policy.js:53 calls it)
VcTypesIsList(claims) ==
    IF claims.type.has THEN claims.type.list
    ELSE IF claims.vc.has /\ claims.vc.type.has THEN claims.vc.type.list
    ELSE TRUE

\* claims.credentialSubject || claims.vc?.credentialSubject || {}
CredentialSubject(claims) ==
    IF claims.credentialSubject.has THEN claims.credentialSubject
    ELSE IF claims.vc.has /\ claims.vc.credentialSubject.has
         THEN claims.vc.credentialSubject
    ELSE NoSubject

\* credentialSubject.taskLog?.action
TaskAction(cs) == IF cs.taskLog.has THEN cs.taskLog.action ELSE Undef

\* no required schema, or the keys of requiredSchema in insertion order
NoSchema == [has |-> FALSE, keys |-> <<>>]
Schema(keys) == [has |-> TRUE, keys |-> keys]

\* a plausible slip: the stub answers that every credential is revoked
CheckRevocationStatusRevoked(vcId) == [revoked |-> TRUE, reason |-> "revoked"]

\* checkRevocationStatus(vcId): a stub, nothing is consulted; the null
\* reason is the absent value
CheckRevocationStatus(vcId) == [revoked |-> FALSE, reason |-> Undef]

\* a plausible slip: the tag every credential carries is looked for
TypeErrorsBaseTag(pol, claims) ==
    IF ~Includes(VcTypes(claims), "VerifiableCredential")
    THEN <<Violation("type", "TaskLogCredential", 0)>> ELSE <<>>

\* rule 1 (policy.js:49-57): one of the required types must be among the
\* credential's type tags
TypeErrors(pol, claims) ==
    LET vcTypes == VcTypes(claims)
        hasRequiredType ==
            \E i \in 1..Len(pol.requiredVCTypes) :
                Includes(vcTypes, pol.requiredVCTypes[i])
    IN  IF ~hasRequiredType
        THEN <<Violation("type", "TaskLogCredential", 0)>> ELSE <<>>

\* a plausible slip: the action rule is left out
ActionErrorsNone(pol, credentialSubject) == <<>>

\* rule 2 (policy.js:59-65): a declared action must be whitelisted
ActionErrors(pol, credentialSubject) ==
    LET taskAction == TaskAction(credentialSubject)
    IN  IF Truthy(taskAction) /\ ~Includes(pol.allowedActions, taskAction)
        THEN <<Violation("action", taskAction, 0)>> ELSE <<>>

\* a plausible slip: the age in milliseconds is compared with maxVCAge
ExpiryErrorsInMs(pol, credentialSubject, t) ==
    LET issuedAt == credentialSubject.issuedAt
        ageMs == t - DateGetTime(issuedAt)
    IN  IF issuedAt.kind # "absent" /\ ~IsNaNDate(issuedAt) /\ ageMs > pol.maxVCAge
        THEN <<Violation("expired", "", ageMs \div 1000)>> ELSE <<>>

\* a plausible slip: the age is reported whatever it is
ExpiryErrorsAlways(pol, credentialSubject, t) ==
    LET issuedAt == credentialSubject.issuedAt
        ageMs == t - DateGetTime(issuedAt)
    IN  IF issuedAt.kind # "absent" /\ ~IsNaNDate(issuedAt) /\ ageMs > 0
        THEN <<Violation("expired", "", ageMs \div 1000)>> ELSE <<>>

\* a plausible slip: the limit itself counts as expired
ExpiryErrorsAtLimit(pol, credentialSubject, t) ==
    LET issuedAt == credentialSubject.issuedAt
        ageMs == t - DateGetTime(issuedAt)
    IN  IF issuedAt.kind # "absent" /\ ~IsNaNDate(issuedAt)
           /\ ageMs >= pol.maxVCAge * 1000
        THEN <<Violation("expired", "", ageMs \div 1000)>> ELSE <<>>

\* rule 3 (policy.js:67-75) at clock reading t: ageInSeconds > maxVCAge; the
\* message carries Math.floor(ageInSeconds).  A NaN age compares false.
ExpiryErrors(pol, credentialSubject, t) ==
    LET issuedAt == credentialSubject.issuedAt
        ageMs == t - DateGetTime(issuedAt)
    IN  IF issuedAt.kind # "absent" /\ ~IsNaNDate(issuedAt)
           /\ ageMs > pol.maxVCAge * 1000
        THEN <<Violation("expired", "", ageMs \div 1000)>> ELSE <<>>

\* rule 4 (policy.js:77-84): one error per key of requiredSchema that is not
\* in credentialSubject
SchemaErrors(credentialSubject, requiredSchema) ==
    LET missing == IF requiredSchema.has
                   THEN SelectSeq(requiredSchema.keys,
                                  LAMBDA k : ~HasKey(credentialSubject, k))
                   ELSE <<>>
    IN  [i \in 1..Len(missing) |-> Violation("schema", missing[i], 0)]

\* checkPolicyCompliance ends in a TypeError: claims.type is read off null or
\* undefined (policy.js:51), or vcTypes.includes is not a function
\* (policy.js:53)
CheckPolicyComplianceThrows(claims) == claims.null \/ ~VcTypesIsList(claims)

\* no result: the call threw
ComplianceThrew == [threw |-> TRUE, compliant |-> FALSE, errors |-> <<>>]

\* a plausible slip: the check returns at the first violated rule
CheckPolicyComplianceFirstOnly(pol, claims, requiredSchema, t) ==
    LET credentialSubject == CredentialSubject(claims)
        errors == TypeErrors(pol, claims)
                  \o ActionErrors(pol, credentialSubject)
                  \o ExpiryErrors(pol, credentialSubject, t)
                  \o SchemaErrors(credentialSubject, requiredSchema)
    IN  IF CheckPolicyComplianceThrows(claims)
        THEN ComplianceThrew
        ELSE IF Len(errors) > 0
        THEN [threw |-> FALSE, compliant |-> FALSE, errors |-> <<errors[1]>>]
        ELSE [threw |-> FALSE, compliant |-> TRUE, errors |-> <<>>]

\* checkPolicyCompliance(claims, requiredSchema), called when the clock reads t
CheckPolicyCompliance(pol, claims, requiredSchema, t) ==
    LET credentialSubject == CredentialSubject(claims)
        errors == TypeErrors(pol, claims)
                  \o ActionErrors(pol, credentialSubject)
                  \o ExpiryErrors(pol, credentialSubject, t)
                  \o SchemaErrors(credentialSubject, requiredSchema)
    IN  IF CheckPolicyComplianceThrows(claims)
        THEN ComplianceThrew
        ELSE IF Len(errors) > 0
        THEN [threw |-> FALSE, compliant |-> FALSE, errors |-> errors]
        ELSE [threw |-> FALSE, compliant |-> TRUE, errors |-> <<>>]

\* a plausible slip: the table has no entry for a whitelisted action
OwnPermissionsNoProfile(action) ==
    CASE action = "OrderPizza" -> <<"read:menu", "write:order">>
      [] action = "QueryStatus" -> <<"read:status">>
      [] OTHER -> <<>>

\* the permissions table of authorize
OwnPermissions(action) ==
    CASE action = "OrderPizza" -> <<"read:menu", "write:order">>
      [] action = "QueryStatus" -> <<"read:status">>
      [] action = "UpdateProfile" -> <<"write:profile">>
      [] OTHER -> <<>>

NoGrant ==
    [ threw |-> TRUE, authorized |-> FALSE, holderDID |-> Undef, action |-> Undef,
      permissions |-> <<>>, expiresIn |-> 0 ]

\* authorize(claims).  claims.credentialSubject is read off null or undefined
\* (policy.js:102): a TypeError.  permissions[taskAction] also finds the
\* properties the table inherits from Object.prototype: such a value is
\* truthy and not an array, so grantedPermissions.join (policy.js:115)
\* throws a TypeError.
Authorize(claims) ==
    LET credentialSubject == CredentialSubject(claims)
        taskAction == TaskAction(credentialSubject)
        holderDID == credentialSubject.id
    IN  IF claims.null \/ taskAction \in InheritedKeys
        THEN NoGrant
        ELSE [ threw |-> FALSE,
               authorized |-> TRUE,
               holderDID |-> holderDID,
               action |-> taskAction,
               permissions |-> OwnPermissions(taskAction),
               expiresIn |-> ExpiresIn ]

\* JSON.stringify of the token payload: a property whose value is undefined
\* is left out of the text
JsonStringify(obj) ==
    [ keys |-> SelectSeq(<<"did", "action", "permissions", "exp">>,
                         LAMBDA k : ~(k = "did" /\ obj.did = Undef)
                                    /\ ~(k = "action" /\ obj.action = Undef)),
      did |-> obj.did, action |-> obj.action,
      permissions |-> obj.permissions, exp |-> obj.exp ]

\* JSON.parse: a property the text does not hold reads as undefined
JsonParse(json) ==
    [ did |-> IF Includes(json.keys, "did") THEN json.did ELSE Undef,
      action |-> IF Includes(json.keys, "action") THEN json.action ELSE Undef,
      permissions |-> json.permissions,
      exp |-> json.exp ]

\* Buffer.from(text).toString('base64') and its inverse
Base64Encode(text) == [enc |-> "base64", text |-> text]
Base64Decode(b) == b.text

NoToken ==
    [ enc |-> "none",
      text |-> [ keys |-> <<>>, did |-> Undef, action |-> Undef,
                 permissions |-> <<>>, exp |-> 0 ] ]

\* a plausible slip: Date.now() is not brought to seconds
GenerateAuthTokenMs(authResult, t) ==
    [ tokenType |-> "Bearer",
      accessToken |->
          Base64Encode(JsonStringify(
              [ did |-> authResult.holderDID,
                action |-> authResult.action,
                permissions |-> authResult.permissions,
                exp |-> t + authResult.expiresIn ])),
      expiresIn |-> authResult.expiresIn ]

\* generateAuthToken(authResult), called when the clock reads t
\* a plausible slip: exp is the lifetime, not the moment of expiry
GenerateAuthTokenRelative(authResult, t) ==
    [ tokenType |-> "Bearer",
      accessToken |->
          Base64Encode(JsonStringify(
              [ did |-> authResult.holderDID,
                action |-> authResult.action,
                permissions |-> authResult.permissions,
                exp |-> authResult.expiresIn ])),
      expiresIn |-> authResult.expiresIn ]

GenerateAuthToken(authResult, t) ==
    [ tokenType |-> "Bearer",
      accessToken |->
          Base64Encode(JsonStringify(
              [ did |-> authResult.holderDID,
                action |-> authResult.action,
                permissions |-> authResult.permissions,
                exp |-> (t \div 1000) + authResult.expiresIn ])),
      expiresIn |-> authResult.expiresIn ]

-----------------------------------------------------------------------------
(* issuer.js: VCIssuer *)

\* this.did, fixed by the constructor
IssuerDID == "did:issuer"

\* no credential
NoJwt ==
    [ has |-> FALSE, iss |-> Undef, sub |-> Undef, nbf |-> 0, sigOK |-> FALSE,
      vc |-> [type |-> NoType, credentialSubject |-> NoSubject] ]

\* a plausible slip: the issuer's own DID is written as the subject
IssueTaskLogVCAboutIssuer(holderDID, taskData, t) ==
    [ has |-> TRUE,
      iss |-> IssuerDID,
      sub |-> IssuerDID,
      nbf |-> t \div 1000,
      sigOK |-> TRUE,
      vc |-> [ type |-> TypeList(<<"VerifiableCredential", "TaskLogCredential">>),
               credentialSubject |-> Subject(IssuerDID, taskData, ToISOString(t)) ] ]

\* issueTaskLogVC(holderDID, taskData) at clock reading t: the JWT, with sigOK
\* telling whether its signature is the one iss's key gives for its payload
IssueTaskLogVC(holderDID, taskData, t) ==
    [ has |-> TRUE,
      iss |-> IssuerDID,
      sub |-> holderDID,
      nbf |-> t \div 1000,
      sigOK |-> TRUE,
      vc |-> [ type |-> TypeList(<<"VerifiableCredential", "TaskLogCredential">>),
               credentialSubject |-> Subject(holderDID, taskData, ToISOString(t)) ] ]

\* the did of the VCIssuer the CLI client creates for itself (3_client.js:133):
\* every instance draws its own random wallet (issuer.js:13-14)
ClientIssuerDID == "did:client-issuer"

\* issueTaskLogVC of the client's own VCIssuer instance
ClientIssueTaskLogVC(holderDID, taskData, t) ==
    [IssueTaskLogVC(holderDID, taskData, t) EXCEPT !.iss = ClientIssuerDID]

\* issueServiceEndpointVC(serverDID, serviceInfo) at clock reading t
\* a plausible slip: the type tags are those of issueTaskLogVC
IssueServiceEndpointVCTaskTag(serverDID, serviceInfo, t) ==
    [ has |-> TRUE,
      iss |-> IssuerDID,
      sub |-> serverDID,
      nbf |-> t \div 1000,
      sigOK |-> TRUE,
      vc |-> [ type |-> TypeList(<<"VerifiableCredential", "TaskLogCredential">>),
               credentialSubject |->
                   ServiceSubject(serverDID, serviceInfo, ToISOString(t)) ] ]

IssueServiceEndpointVC(serverDID, serviceInfo, t) ==
    [ has |-> TRUE,
      iss |-> IssuerDID,
      sub |-> serverDID,
      nbf |-> t \div 1000,
      sigOK |-> TRUE,
      vc |-> [ type |-> TypeList(<<"VerifiableCredential", "ServiceEndpointCredential">>),
               credentialSubject |->
                   ServiceSubject(serverDID, serviceInfo, ToISOString(t)) ] ]

-----------------------------------------------------------------------------
(* did-jwt-vc, as 2_server.js uses it *)

\* no presentation in the request body
NoVp == [has |-> FALSE, iss |-> Undef, sigOK |-> FALSE, verifiableCredential |-> <<>>]

\* createVerifiablePresentationJwt: a presentation JWT naming iss as its
\* signer; sigOK tells whether the signature is the one iss's key gives
PresentationJwt(iss, sigOK, credentials) ==
    [has |-> TRUE, iss |-> iss, sigOK |-> sigOK, verifiableCredential |-> credentials]

\* normalizeCredential: the decoded payload of an embedded credential JWT, in
\* the shape the policy engine reads; credentialSubject.id is filled from sub
\* when the subject carries none
NormalizeCredential(jwt) ==
    LET cs == jwt.vc.credentialSubject
    IN  Claims(jwt.vc.type,
               IF cs.has /\ cs.id = Undef /\ jwt.sub # Undef
               THEN [cs EXCEPT !.id = jwt.sub] ELSE cs,
               NoVc)

\* verifyPresentation(vpJwt, didResolver): verifyJWT checks the signature of
\* the presentation JWT against the resolved document of its iss and throws
\* when it does not match; the embedded credential JWTs are decoded
\* (normalizePresentation), their own signatures are not checked.
VerifyPresentation(vpJwt) ==
    IF ~vpJwt.sigOK
    THEN [threw |-> TRUE, verifiableCredential |-> <<>>]
    ELSE [ threw |-> FALSE,
           verifiableCredential |->
               [ i \in 1..Len(vpJwt.verifiableCredential) |->
                   NormalizeCredential(vpJwt.verifiableCredential[i]) ] ]

-----------------------------------------------------------------------------
(* 2_server.js: the server process *)

\* serverDID, derived from the wallet created when the module loads
ServerDID == "did:server"

\* the url of serviceInfo
ServiceUrl == "http://localhost:3000"

\* the module's process state once initializeServer has run at clock reading
\* t: the server listens only after that (part_001:482-489)
InitializeServer(t) ==
    LET serverVC == IssueServiceEndpointVC(ServerDID, ServiceUrl, t)
    IN  [ serverDID |-> ServerDID,
          serverSigner |-> "key:server",
          issuer |-> [did |-> IssuerDID, signer |-> "key:issuer"],
          serverVC |-> serverVC,
          serverVP |-> PresentationJwt(ServerDID, TRUE, <<serverVC>>),
          serverInitialized |-> TRUE ]

\* the body of the /agent-card response; initializeServer runs first when
\* serverInitialized is not set
AgentCard(srv, t) ==
    LET s == IF srv.serverInitialized THEN srv ELSE InitializeServer(t)
    IN  [ has |-> TRUE, did |-> s.serverDID, serverVP |-> s.serverVP,
          issuerDID |-> s.issuer.did ]

NoCard == [has |-> FALSE, did |-> Undef, serverVP |-> NoVp, issuerDID |-> Undef]

\* the module's process state when 2_server.js has been loaded: the wallet,
\* the signer and the issuer exist, serverVC and serverVP are null
LoadServer ==
    [ InitializeServer(0) EXCEPT !.serverVC = NoJwt, !.serverVP = NoVp,
                                 !.serverInitialized = FALSE ]

\* the first await of the startup block has settled: serverVC is assigned
VcIssued(srv, t) ==
    [srv EXCEPT !.serverVC = IssueServiceEndpointVC(srv.serverDID, ServiceUrl, t)]

\* the second await has settled: serverVP is assigned (and, in the later
\* version, serverInitialized is set)
VpBuilt(srv, version) ==
    [srv EXCEPT !.serverVP = PresentationJwt(srv.serverDID, TRUE, <<srv.serverVC>>),
                !.serverInitialized = (version = "later")]

\* the body of the earlier version's /agent-card response: serverVP as it
\* stands
EarlierAgentCard(srv) ==
    [ has |-> TRUE, did |-> srv.serverDID, serverVP |-> srv.serverVP,
      issuerDID |-> srv.issuer.did ]

\* where the startup stands: pc is "loaded", "vcIssued" or "initialized";
\* listening tells whether app.listen has been called; cards are the
\* /agent-card responses sent
Started == [version |-> "later", pc |-> "initialized", listening |-> TRUE, cards |-> <<>>]
\* the earlier version calls app.listen at the end of the module, the later
\* one after await initializeServer()
Loaded(version) ==
    [version |-> version, pc |-> "loaded", listening |-> (version = "earlier"), cards |-> <<>>]

\* app.post('/api/create-vc'): the server signs the caller's vcPayload with
\* the private key the caller sends and names vcPayload.sub as the issuer
\* (part_001:267-284); the signature is that of iss when the key is the key
\* of vcPayload.sub.  The payload here is the one issueTaskLogVC builds.
CreateVcHandler(sub, keyOwner, taskData, t) ==
    [IssueTaskLogVC(sub, taskData, t) EXCEPT !.iss = sub, !.sigOK = (sub = keyOwner)]

-----------------------------------------------------------------------------
(* 2_server.js: app.post('/a2a/authenticate') *)

NoCompliance == [threw |-> FALSE, compliant |-> FALSE, errors |-> <<>>]
NoError == [kind |-> "none", reason |-> Undef, errors |-> <<>>]

\* e.message of what the handler's catch block receives
VerifyError == [kind |-> "verifyPresentation", reason |-> Undef, errors |-> <<>>]
MissingVcError == [kind |-> "VC not found", reason |-> Undef, errors |-> <<>>]
RevokedError(reason) == [kind |-> "VC revoked", reason |-> reason, errors |-> <<>>]
\* a plausible slip: the message leaves out what the check found
PolicyErrorBare(errors) == [kind |-> "policy violation", reason |-> Undef, errors |-> <<>>]
PolicyError(errors) == [kind |-> "policy violation", reason |-> Undef, errors |-> errors]
ComplianceTypeError == [kind |-> "TypeError", reason |-> "includes", errors |-> <<>>]
AuthorizeTypeError == [kind |-> "TypeError", reason |-> Undef, errors |-> <<>>]
NotAuthorizedError == [kind |-> "not authorized", reason |-> Undef, errors |-> <<>>]
VpRequiredError == [kind |-> "VP required", reason |-> Undef, errors |-> <<>>]

\* a response: res.status(..).json(..)
ErrorResponse(status, error) ==
    [status |-> status, error |-> error, clientDid |-> Undef, authToken |-> NoToken]
SuccessResponse(clientDid, authToken) ==
    [status |-> 200, error |-> NoError, clientDid |-> clientDid, authToken |-> authToken]

\* a step the handler has run and whether it let the handler go on
Step(name, ok) == [step |-> name, ok |-> ok]

\* the handler's locals; route is the path the request came to, pc is where
\* the handler stands: "idle" before a request,
\* "verifying" and "revoking" at its two awaits, "done" after the response
IdleAttempt ==
    [ route |-> "/a2a/authenticate",
      pc |-> "idle", vp |-> NoVp, log |-> <<>>, responses |-> <<>>,
      revocationCalls |-> <<>>,
      credential |-> Claims(NoType, NoSubject, NoVc),
      revocationStatus |-> [revoked |-> FALSE, reason |-> Undef],
      complianceResult |-> NoCompliance, authResult |-> NoGrant, at |-> 0 ]

\* a plausible slip: the error is answered but the handler does not end
CatchAndGoOn(a, error) ==
    [a EXCEPT !.responses = Append(@, ErrorResponse(403, error))]

\* the catch block: one 403 response carrying e.message
Catch(a, error) ==
    [a EXCEPT !.pc = "done", !.responses = Append(@, ErrorResponse(403, error))]

\* a plausible slip: the handler does not look for the presentation before
\* it verifies
ReceiveUnchecked(vpJwt) ==
    [IdleAttempt EXCEPT !.pc = "verifying", !.vp = vpJwt]

\* the request arrives: 401 at once without a presentation, else
\* verifyPresentation is awaited
Receive(vpJwt) ==
    IF ~vpJwt.has
    THEN [IdleAttempt EXCEPT !.pc = "done",
                             !.responses = <<ErrorResponse(401, VpRequiredError)>>]
    ELSE [IdleAttempt EXCEPT !.pc = "verifying", !.vp = vpJwt]

\* a plausible slip: index 1 in the place of index 0
SecondCredential(verifiedVP) ==
    IF Len(verifiedVP.verifiableCredential) < 2
    THEN [has |-> FALSE, claims |-> Claims(NoType, NoSubject, NoVc)]
    ELSE [has |-> TRUE, claims |-> verifiedVP.verifiableCredential[2]]

\* a plausible slip: the credential at the last position is taken
LastCredential(verifiedVP) ==
    LET n == Len(verifiedVP.verifiableCredential)
    IN  IF n = 0
        THEN [has |-> FALSE, claims |-> Claims(NoType, NoSubject, NoVc)]
        ELSE [has |-> TRUE, claims |-> verifiedVP.verifiableCredential[n]]

\* verifiedVP.verifiablePresentation?.verifiableCredential?.[0]
\*   || verifiedVP.verifiableCredential?.[0]
FirstCredential(verifiedVP) ==
    IF Len(verifiedVP.verifiableCredential) = 0
    THEN [has |-> FALSE, claims |-> Claims(NoType, NoSubject, NoVc)]
    ELSE [has |-> TRUE, claims |-> verifiedVP.verifiableCredential[1]]

\* verifyPresentation has settled: the first embedded credential is taken
\* and checkRevocationStatus is called on it and awaited
AfterVerify(a) ==
    LET verifiedVP == VerifyPresentation(a.vp)
        first == FirstCredential(verifiedVP)
    IN  IF verifiedVP.threw
        THEN Catch([a EXCEPT !.log = Append(@, Step("verifyPresentation", FALSE))],
                   VerifyError)
        ELSE IF ~first.has
        THEN Catch([a EXCEPT !.log = @ \o <<Step("verifyPresentation", TRUE),
                                            Step("credential", FALSE)>>],
                   MissingVcError)
        ELSE LET credential == first.claims
             IN  [a EXCEPT !.pc = "revoking",
                           !.credential = credential,
                           !.revocationCalls = Append(@, credential),
                           !.revocationStatus = CheckRevocationStatus(credential),
                           !.log = @ \o <<Step("verifyPresentation", TRUE),
                                          Step("credential", TRUE)>>]

\* the three guards of the handler that throw (part_001:382-384, 388-390,
\* 394-396)
RevocationRejects(revocationStatus) == revocationStatus.revoked
\* a plausible slip: the compliance result is not looked at
ComplianceRejectsNever(complianceResult) == FALSE
ComplianceRejects(complianceResult) == ~complianceResult.compliant
AuthorizationRejects(authResult) == ~authResult.authorized

\* checkRevocationStatus has settled at clock reading t: the rest of the
\* handler runs without another await
AfterRevocation(a, pol, t) ==
    LET a1 == [a EXCEPT !.at = t,
                        !.log = Append(@, Step("checkRevocationStatus",
                                               ~a.revocationStatus.revoked))]
        complianceResult == CheckPolicyCompliance(pol, a.credential, NoSchema, t)
        a2 == [a1 EXCEPT !.complianceResult = complianceResult,
                         !.log = Append(@, Step("checkPolicyCompliance",
                                                complianceResult.compliant))]
        authResult == Authorize(a.credential)
        a3 == [a2 EXCEPT !.authResult = authResult,
                         !.log = Append(@, Step("authorize",
                                                ~authResult.threw /\ authResult.authorized))]
        authToken == GenerateAuthToken(authResult, t)
        clientDid == IF a.credential.credentialSubject.has
                        /\ Truthy(a.credential.credentialSubject.id)
                     THEN a.credential.credentialSubject.id
                     ELSE authResult.holderDID
    IN  IF RevocationRejects(a.revocationStatus)
        THEN Catch(a1, RevokedError(a.revocationStatus.reason))
        ELSE IF complianceResult.threw
        THEN Catch(a2, ComplianceTypeError)
        ELSE IF ComplianceRejects(complianceResult)
        THEN Catch(a2, PolicyError(complianceResult.errors))
        ELSE IF authResult.threw
        THEN Catch(a3, AuthorizeTypeError)
        ELSE IF AuthorizationRejects(authResult)
        THEN Catch(a3, NotAuthorizedError)
        ELSE [a3 EXCEPT !.pc = "done",
                        !.log = Append(@, Step("generateAuthToken", TRUE)),
                        !.responses = Append(@, SuccessResponse(clientDid,
                                                                authToken.accessToken))]

-----------------------------------------------------------------------------
(* 2_server.js, earlier version: app.post('/a2a/message') *)

\* the two error texts of the handler
AuthRequiredError ==
    [kind |-> "Authentication Required (VP)", reason |-> Undef, errors |-> <<>>]
InvalidSignatureError ==
    [kind |-> "invalid DID signature", reason |-> Undef, errors |-> <<>>]

\* res.json({ status: "success", message }): no token, no clientDid property
MessageResponse ==
    [status |-> 200, error |-> NoError, clientDid |-> Undef, authToken |-> NoToken]

\* the request arrives with the presentation in the x-a2a-did-vp header
ReceiveMessage(vpJwt) ==
    IF ~vpJwt.has
    THEN [IdleAttempt EXCEPT !.route = "/a2a/message", !.pc = "done",
                             !.responses = <<ErrorResponse(401, AuthRequiredError)>>]
    ELSE [IdleAttempt EXCEPT !.route = "/a2a/message", !.pc = "verifying",
                             !.vp = vpJwt]

\* the catch block: one 403 with a fixed text, whatever was thrown
CatchMessage(a) ==
    [a EXCEPT !.pc = "done",
              !.responses = Append(@, ErrorResponse(403, InvalidSignatureError))]

\* verifyPresentation has settled: the first credential's subject is read
\* (a TypeError when there is none) and the request is answered
AfterVerifyMessage(a) ==
    LET verified == VerifyPresentation(a.vp)
    IN  IF verified.threw
        THEN CatchMessage([a EXCEPT !.log = Append(@, Step("verifyPresentation", FALSE))])
        ELSE IF \/ Len(verified.verifiableCredential) = 0
                \/ ~verified.verifiableCredential[1].credentialSubject.has
        THEN CatchMessage([a EXCEPT !.log = @ \o <<Step("verifyPresentation", TRUE),
                                                    Step("credential", FALSE)>>])
        ELSE [a EXCEPT !.pc = "done",
                       !.credential = verified.verifiableCredential[1],
                       !.log = @ \o <<Step("verifyPresentation", TRUE),
                                      Step("credential", TRUE)>>,
                       !.responses = Append(@, MessageResponse)]

-----------------------------------------------------------------------------
(* 2_server.js: app.post('/ai/task') *)

\* req.body.taskData: absent, or an object with the keys it holds
NoTaskData == [has |-> FALSE, menu |-> Undef, size |-> Undef]
TaskDataOf(menu, size) == [has |-> TRUE, menu |-> menu, size |-> size]

\* a string that is not the base64 text of a token payload
GarbageToken == [enc |-> "garbage", text |-> NoToken.text]

\* !authToken is false: the value is a non-empty string
TokenTruthy(authToken) == authToken.enc # "none"

\* Object.keys(taskData || {})
ObjectKeys(taskData) ==
    SelectSeq(<<"menu", "size">>,
              LAMBDA k : \/ k = "menu" /\ taskData.menu # Undef
                         \/ k = "size" /\ taskData.size # Undef)

NoDetails ==
    [kind |-> "none", menu |-> Undef, size |-> Undef, fields |-> <<>>, received |-> Undef]

\* taskDetails as the switch on taskType sets it (part_001:430-463)
TaskDetails(taskType, taskData) ==
    CASE taskType = "OrderPizza" ->
             [ NoDetails EXCEPT
                 !.kind = "order",
                 !.menu = IF Truthy(taskData.menu) THEN taskData.menu ELSE "pepperoni",
                 !.size = IF Truthy(taskData.size) THEN taskData.size ELSE "L" ]
      [] taskType = "QueryStatus" -> [NoDetails EXCEPT !.kind = "status"]
      [] taskType = "UpdateProfile" ->
             [NoDetails EXCEPT !.kind = "profile", !.fields = ObjectKeys(taskData)]
      [] OTHER -> [NoDetails EXCEPT !.kind = "unknown", !.received = taskType]

\* res.status(..).json(..) of /ai/task
TaskResponse(status, success, taskType, details) ==
    [status |-> status, success |-> success, taskType |-> taskType, details |-> details]

\* the handler of /ai/task: 401 without a token; taskData.menu read off an
\* absent taskData is a TypeError, answered 500 by the catch block; every
\* other request is answered with success
AiTaskHandler(authToken, taskType, taskData) ==
    IF ~TokenTruthy(authToken)
    THEN TaskResponse(401, FALSE, Undef, NoDetails)
    ELSE IF taskType = "OrderPizza" /\ ~taskData.has
    THEN TaskResponse(500, FALSE, Undef, NoDetails)
    ELSE TaskResponse(200, TRUE, taskType, TaskDetails(taskType, taskData))

\* no /ai/task request yet
NoTask ==
    [ pc |-> "idle", authToken |-> NoToken, taskType |-> Undef,
      taskData |-> NoTaskData, at |-> 0,
      response |-> TaskResponse(0, FALSE, Undef, NoDetails) ]

-----------------------------------------------------------------------------
(* 3_client.js: run(), and client-auth.js: startAuthentication() *)

\* no response read yet
NoResponse == ErrorResponse(0, NoError)

\* the body Express gives a path without a route: a 404 page, not JSON
NotFoundError == [kind |-> "Cannot POST", reason |-> Undef, errors |-> <<>>]

\* the client's locals; kind tells which client runs ("cli", "browser"), pc
\* where it stands, log the steps it has completed
IdleClient ==
    [ kind |-> "none", pc |-> "init", didString |-> Undef, log |-> <<>>,
      card |-> NoCard, vcJwt |-> NoJwt, vpJwt |-> NoVp, response |-> NoResponse,
      token |-> NoToken, error |-> Undef ]

\* the run ends on an exception: run() rejects, startAuthentication's catch
\* block shows the failure
Abort(c, error) == [c EXCEPT !.pc = "failed", !.error = error]

\* new DIDAuthHandler() (3_client.js:62-82), ethers.Wallet.createRandom()
\* and didString (test_all.js:193-195)
EstablishIdentity(kind, did) ==
    [IdleClient EXCEPT !.kind = kind, !.didString = did, !.pc = "fetchingCard",
                       !.log = <<Step("IdentityEstablished", TRUE)>>]

\* the agent card has arrived
CardFetched(c, card) ==
    [c EXCEPT !.card = card, !.pc = "verifyingServer",
              !.log = Append(@, Step("ServerCardFetched", TRUE))]

\* a plausible slip: the CLI client stops when the server's presentation
\* does not verify
CliServerVerifiedBlocking(c) ==
    IF ~c.card.serverVP.has
    THEN [c EXCEPT !.pc = "requestingCredential"]
    ELSE IF VerifyPresentation(c.card.serverVP).threw
    THEN Abort([c EXCEPT !.log = Append(@, Step("ServerPresentationVerified", FALSE))],
               "Server VP verification failed")
    ELSE [c EXCEPT !.pc = "requestingCredential",
                   !.log = Append(@, Step("ServerPresentationVerified", TRUE))]

\* 3_client.js:172-186: the card's presentation, when there is one, is
\* verified inside try/catch; the catch block logs and goes on
CliServerVerified(c) ==
    IF ~c.card.serverVP.has
    THEN [c EXCEPT !.pc = "requestingCredential"]
    ELSE [c EXCEPT !.pc = "requestingCredential",
                   !.log = Append(@, Step("ServerPresentationVerified",
                                          ~VerifyPresentation(c.card.serverVP).threw))]

\* app.post('/api/verify-server-vp'): the status of the response
VerifyServerVpHandler(serverVP) ==
    IF ~serverVP.has THEN 400
    ELSE IF VerifyPresentation(serverVP).threw THEN 400
    ELSE 200

\* test_all.js:221-251: a card without a presentation and a verification
\* that is not answered ok both throw
BrowserServerVerified(c) ==
    IF ~c.card.serverVP.has
    THEN Abort(c, "Server VP not provided")
    ELSE IF VerifyServerVpHandler(c.card.serverVP) # 200
    THEN Abort([c EXCEPT !.log = Append(@, Step("ServerPresentationVerified", FALSE))],
               "Server VP verification failed")
    ELSE [c EXCEPT !.pc = "requestingCredential",
                   !.log = Append(@, Step("ServerPresentationVerified", TRUE))]

\* the credential request leaves: issuer.issueTaskLogVC(...) is called
\* (3_client.js:98), /api/issue-vc is posted (test_all.js:264)
CredentialRequested(c) ==
    [c EXCEPT !.pc = "awaitingCredential",
              !.log = Append(@, Step("CredentialRequested", TRUE))]

\* the issuer has answered at clock reading t; ok tells whether it issued
CredentialReceived(c, ok, t) ==
    IF ~ok
    THEN Abort(c, "VC issuance failed")
    ELSE [c EXCEPT !.vcJwt = IF c.kind = "cli"
                             THEN ClientIssueTaskLogVC(c.didString, TaskLog("OrderPizza"), t)
                             ELSE IssueTaskLogVC(c.didString, TaskLog("OrderPizza"), t),
                   !.pc = "building",
                   !.log = Append(@, Step("CredentialReceived", TRUE))]

\* a plausible slip: the presentation is built around no credential
PresentationBuiltEmpty(c, ok) ==
    IF ~ok
    THEN Abort(c, "VP creation failed")
    ELSE [c EXCEPT !.vpJwt = PresentationJwt(c.didString, TRUE, <<>>),
                   !.pc = "sending",
                   !.log = Append(@, Step("PresentationBuilt", TRUE))]

\* createVerifiablePresentationJwt around [vcJwt], signed with the client's
\* key (3_client.js:104-116, test_all.js:291-316); ok tells whether it
\* returned a presentation
PresentationBuilt(c, ok) ==
    IF ~ok
    THEN Abort(c, "VP creation failed")
    ELSE [c EXCEPT !.vpJwt = PresentationJwt(c.didString, TRUE, <<c.vcJwt>>),
                   !.pc = "sending",
                   !.log = Append(@, Step("PresentationBuilt", TRUE))]

\* the request carrying the presentation leaves the client
PresentationSent(c) ==
    [c EXCEPT !.pc = "awaitingResponse",
              !.log = Append(@, Step("PresentationSent", TRUE))]

\* response.authorization (3_client.js:196): neither /a2a/message nor
\* /a2a/authenticate writes a property of that name
ResponseAuthorization(response) == NoToken

\* test_all.js:353-410: an ok response gives the token, any other throws
BrowserResponseRead(c, response) ==
    IF response.status = 200
    THEN [c EXCEPT !.response = response, !.token = response.authToken,
                   !.pc = "done",
                   !.log = Append(@, Step("TokenReceived", TRUE))]
    ELSE Abort([c EXCEPT !.response = response], "authentication failed")

\* 3_client.js:189-201: res.json() throws on a body that is not JSON; the
\* token is what response.authorization holds
CliResponseRead(c, response) ==
    IF response.status = 404
    THEN Abort([c EXCEPT !.response = response], "invalid json response body")
    ELSE LET authorization == ResponseAuthorization(response)
         IN  [c EXCEPT !.response = response, !.token = authorization,
                       !.pc = "done",
                       !.log = IF TokenTruthy(authorization)
                               THEN Append(@, Step("TokenReceived", TRUE)) ELSE @]

-----------------------------------------------------------------------------
(* client-auth.js: the page around startAuthentication() and performAITask() *)

\* the page before the start button is pressed: the button is enabled,
\* no run is under way, no /ai/task request has left
NoPage ==
    [ pc |-> "idle", startBtnDisabled |-> FALSE, taskRequests |-> <<>>,
      taskShown |-> FALSE ]

\* startAuthentication() is entered: the button is disabled (test_all.js:182-185)
PageStarted == [NoPage EXCEPT !.pc = "handshake", !.startBtnDisabled = TRUE]

\* a plausible slip: the button is enabled again at the end of the try block
\* only, not in a finally block
PageAfterStepNoFinally(pg, c) == pg

\* a step of the handshake has settled with the client's locals c: when it
\* threw, the catch block shows the failure and the finally block enables
\* the button (test_all.js:412-430)
PageAfterStep(pg, c) ==
    IF c.pc = "failed"
    THEN [pg EXCEPT !.pc = "ended", !.startBtnDisabled = FALSE]
    ELSE pg

\* the body performAITask posts to /ai/task (test_all.js:441-455)
TaskRequest(authToken, action) ==
    [authToken |-> authToken, taskType |-> action, taskData |-> TaskDataOf("pepperoni", "L")]

\* the authentication response was ok: performAITask is called with the
\* token of the response and the action of the task context
\* (test_all.js:404-406)
PageDispatch(pg) == [pg EXCEPT !.pc = "dispatching"]

\* fetch('/ai/task', ...) leaves the page
PageTaskSent(pg, c) ==
    [pg EXCEPT !.pc = "awaitingTask",
               !.taskRequests = Append(@, TaskRequest(c.token, "OrderPizza"))]

\* the answer to /ai/task has settled: performAITask shows the result or
\* catches its own error, then the finally block of startAuthentication
\* enables the button
PageTaskSettled(pg, response) ==
    [pg EXCEPT !.pc = "ended", !.startBtnDisabled = FALSE,
               !.taskShown = (response.status = 200)]

-----------------------------------------------------------------------------
(* 3_client.js: customFetch and DIDAuthHandler.generateVP *)

\* the two urls A2AClient builds, as their parts
CardUrl == <<"http://localhost:3000", "/agent-card">>
MessageUrl == <<"http://localhost:3000", "/a2a/message">>

\* url.includes(part)
UrlIncludes(url, part) == Includes(url, part)

\* generateVP(taskContext, issuer) at clock reading t. The earlier version's
\* customFetch calls generateVP(taskContext) without an issuer, so
\* issuer.issueTaskLogVC throws a TypeError (part_000:70, 101)
GenerateVP(version, didString, t) ==
    IF version = "earlier"
    THEN [threw |-> TRUE, vp |-> NoVp]
    ELSE [ threw |-> FALSE,
           vp |-> PresentationJwt(didString, TRUE,
                      <<ClientIssueTaskLogVC(didString, TaskLog("OrderPizza"), t)>>) ]

\* one run: the version of the client, the handler's didString, and for each
\* call of customFetch its url, the clock, whether fetch was called and the
\* x-a2a-did-vp header it was called with; issued and built count the
\* credentials issued and the presentations built
NoFetches ==
    [ pc |-> "idle", version |-> "later", didString |-> Undef, calls |-> <<>>,
      issued |-> 0, built |-> 0 ]

\* customFetch(url, options) at clock reading t
CustomFetch(f, url, t) ==
    IF UrlIncludes(url, "/agent-card")
    THEN [f EXCEPT !.calls = Append(@, [url |-> url, at |-> t, sent |-> TRUE, vp |-> NoVp])]
    ELSE LET made == GenerateVP(f.version, f.didString, t)
         IN  IF made.threw
             THEN [f EXCEPT !.pc = "failed",
                            !.calls = Append(@, [url |-> url, at |-> t, sent |-> FALSE,
                                                 vp |-> NoVp])]
             ELSE [f EXCEPT !.issued = @ + 1, !.built = @ + 1,
                            !.calls = Append(@, [url |-> url, at |-> t, sent |-> TRUE,
                                                 vp |-> made.vp])]

-----------------------------------------------------------------------------
(* test_all.js: the integration test, with 1_chain.js *)

\* the test process and its children. pc is "idle", "running" or "exited";
\* file is registry_address.txt: "none", "stale" (left by an earlier run) or
\* "fresh" (written by this run's 1_chain.js); chain is "running",
\* "reported" (the registry address line is printed) or "written"; server
\* is "spawned", "crashed" or "listening" (the listening line is printed);
\* client is "running" or "closed"; serverTimer and clientTimer are the
\* timers that call startServer and startClient: "none", "set" or "fired";
\* events lists what happened, in order
NoTest ==
    [ pc |-> "idle", file |-> "none", chain |-> "none", server |-> "none",
      client |-> "none", serverRead |-> "none",
      serverTimer |-> "none", clientTimer |-> "none",
      close |-> [signal |-> FALSE, code |-> 0], sigint |-> FALSE,
      exitCode |-> 0, events |-> <<>> ]

\* what a 'close' event brings: the exit code, or null when a signal ended
\* the process
CloseCodes ==
    { [signal |-> FALSE, code |-> 0], [signal |-> FALSE, code |-> 1],
      [signal |-> TRUE, code |-> 0] }

\* a plausible slip: process.exit() without the code
ProcessExitNoCode(close) == 0

\* process.exit(code): null leaves the exit code at 0
ProcessExit(close) == IF close.signal THEN 0 ELSE close.code

\* t with event e added to its list
Happened(t, e) == [t EXCEPT !.events = Append(@, e)]

-----------------------------------------------------------------------------
(* Inputs *)

\* the taskData a client asks the issuer to certify
TaskDatas ==
    {NoTaskLog} \cup {TaskLog(a) : a \in {"OrderPizza", "QueryStatus", "DeleteAccount"}}

\* copies of a credential JWT changed after signing: the signature no
\* longer matches the payload
TamperedCopies(jwt) ==
    { [jwt EXCEPT !.sigOK = FALSE, !.vc.credentialSubject.taskLog = TaskLog(a)] :
        a \in {"OrderPizza", "DeleteAccount"} }

\* the credential JWTs a client can embed
Embeddable(w) == IF w.has THEN {w} \cup TamperedCopies(w) ELSE {}

SeqsUpTo(S, n) == UNION { [1..k -> S] : k \in 0..n }

\* what a request to /a2a/authenticate can carry as req.body.vp
Presentations(w) ==
    {NoVp} \cup
    { PresentationJwt(h, ok, cs) :
        h \in Holders, ok \in BOOLEAN, cs \in SeqsUpTo(Embeddable(w), MaxCreds) }

\* claims objects handed to the policy engine directly
TypeValues ==
    { NoType, TypeNotAList, TypeList(<<>>),
      TypeList(<<"VerifiableCredential", "TaskLogCredential">>),
      TypeList(<<"VerifiableCredential", "ServiceEndpointCredential">>) }

ActionValues ==
    { Undef, "", "OrderPizza", "QueryStatus", "UpdateProfile", "DeleteAccount",
      "constructor" }

DateValues == {NoDate, BadDate, ToISOString(Epoch), ToISOString(Epoch + 3601000)}

SubjectValues ==
    {NoSubject} \cup
    { Subject(id, tl, d) :
        id \in {Undef, "did:H1"},
        tl \in {NoTaskLog} \cup {TaskLog(a) : a \in ActionValues},
        d \in DateValues }

VcValues ==
    { NoVc,
      [ has |-> TRUE,
        type |-> TypeList(<<"VerifiableCredential", "TaskLogCredential">>),
        credentialSubject |->
            Subject("did:H2", TaskLog("QueryStatus"), ToISOString(Epoch)) ] }

PolicyClaims ==
    {NullClaims} \cup
    { Claims(ty, cs, vc) : ty \in TypeValues, cs \in SubjectValues, vc \in VcValues }

SchemaValues ==
    { NoSchema, Schema(<<"taskLog">>), Schema(<<"taskLog", "issuedAt">>),
      Schema(<<"menu", "id", "taskLog">>) }

\* req.body.taskType of /ai/task
TaskTypes == {Undef, "OrderPizza", "QueryStatus", "UpdateProfile", "DeleteAccount"}

\* req.body.taskData of /ai/task
TaskDataValues ==
    {NoTaskData} \cup {TaskDataOf(m, z) : m \in {Undef, "cheese"}, z \in {Undef, "M"}}

\* the tokens generateAuthToken has handed out by clock reading t
IssuedTokens(t) ==
    { GenerateAuthToken(Authorize(Claims(NoType, Subject("did:H1", tl, NoDate), NoVc)),
                        t0).accessToken :
        tl \in {NoTaskLog, TaskLog("OrderPizza"), TaskLog("QueryStatus")},
        t0 \in {c \in ClockValues : c <= t} }

\* req.body.authToken of /ai/task: nothing, any string, or an issued token
TaskTokens(t) == {NoToken, GarbageToken} \cup IssuedTokens(t)

\* what a GET /agent-card brings the client: the server's card, the card of
\* a server that offers no presentation, or a card whose presentation does
\* not verify
CardValues(srv, t) ==
    LET card == AgentCard(srv, t)
    IN  { card,
          [card EXCEPT !.serverVP = NoVp],
          [card EXCEPT !.serverVP.sigOK = FALSE] }

\* the two clients of the repository
ClientKinds == {"cli", "browser"}

\* the 2_server.js the CLI client reaches: the earlier one has the
\* /a2a/message route, the later one has not
ServerVersions == {"earlier", "later"}

\* the paths a presentation can be posted to
Routes == {"/a2a/authenticate", "/a2a/message"}

\* what side-by-side requests carry: nothing, a presentation of did:H1
\* without a credential, or one around the issued credential with a valid
\* or an invalid signature
ReplayPresentations(w) ==
    {NoVp, PresentationJwt("did:H1", TRUE, <<>>)} \cup
    (IF w.has THEN {PresentationJwt("did:H1", ok, <<w>>) : ok \in BOOLEAN} ELSE {})

\* the taskData certified for side-by-side requests: one allowed action and
\* one that is not
ReplayTaskDatas == {TaskLog("OrderPizza"), TaskLog("DeleteAccount")}

\* the clock readings side-by-side requests are served at: the start, and
\* the two readings around the end of the freshness window
ReplayClockValues == {Epoch, Epoch + 3600000, Epoch + 3600001}


\* the versions of 3_client.js
ClientVersions == {"earlier", "later"}

-----------------------------------------------------------------------------
(* State machine *)

NoAgain == [done |-> FALSE, at |-> 0, result |-> NoCompliance]

NoCall ==
    [ fn |-> "none", claims |-> Claims(NoType, NoSubject, NoVc),
      claimsAfter |-> Claims(NoType, NoSubject, NoVc), schema |-> NoSchema,
      at |-> 0, result |-> NoCompliance, grant |-> NoGrant, again |-> NoAgain ]

Init ==
    /\ now = Epoch
    /\ policies = PolicyRules
    /\ call = NoCall
    /\ wallet = NoJwt
    /\ att = IdleAttempt
    /\ task = NoTask
    /\ server = InitializeServer(Epoch)
    /\ client = IdleClient
    /\ reqs = [i \in 1..MaxReq |-> IdleAttempt]
    /\ boot = Started
    /\ fetches = NoFetches
    /\ test = NoTest
    /\ page = NoPage

\* time passes
Tick ==
    /\ \E t \in ClockValues : t > now /\ now' = t
    /\ UNCHANGED <<policies, call, wallet, att, task, server, client, reqs, boot, fetches, test, page>>

\* the issuer signs a TaskLog credential for a holder (issuer.js:31-56,
\* reached through /api/issue-vc or called by the client); a run follows
\* one issued credential, its copies and its tampered copies
IssueCredential(holderDID, taskData) ==
    /\ ~wallet.has
    /\ wallet' = IssueTaskLogVC(holderDID, taskData, now)
    /\ UNCHANGED <<now, policies, call, att, task, server, client, reqs, boot, fetches, test, page>>

\* POST /a2a/authenticate arrives
Authenticate(vpJwt) ==
    /\ att.pc \in {"idle", "done"}
    /\ att' = Receive(vpJwt)
    /\ UNCHANGED <<now, policies, call, wallet, task, server, client, reqs, boot, fetches, test, page>>

\* await verifyPresentation(...) resumes the handler
VerifySettles ==
    /\ att.pc = "verifying"
    /\ att' = IF att.route = "/a2a/message"
              THEN AfterVerifyMessage(att) ELSE AfterVerify(att)
    /\ UNCHANGED <<now, policies, call, wallet, task, server, client, reqs, boot, fetches, test, page>>

\* await checkRevocationStatus(...) resumes the handler
RevocationSettles ==
    /\ att.pc = "revoking"
    /\ att' = AfterRevocation(att, policies, now)
    /\ UNCHANGED <<now, policies, call, wallet, task, server, client, reqs, boot, fetches, test, page>>

Next ==
    \/ Tick
    \/ \E h \in Holders, td \in TaskDatas : IssueCredential(h, td)
    \/ \E vpJwt \in Presentations(wallet) : Authenticate(vpJwt)
    \/ VerifySettles
    \/ RevocationSettles

Spec == Init /\ [][Next]_vars

\* a direct call of checkPolicyCompliance
CallCheckPolicyCompliance(claims, requiredSchema) ==
    /\ call.fn = "none"
    /\ call' = [ NoCall EXCEPT
                   !.fn = "checkPolicyCompliance",
                   !.claims = claims,
                   !.claimsAfter = claims,
                   !.schema = requiredSchema,
                   !.at = now,
                   !.result = CheckPolicyCompliance(policies, claims, requiredSchema, now) ]
    /\ UNCHANGED <<now, policies, wallet, att, task, server, client, reqs, boot, fetches, test, page>>

\* the same caller calls checkPolicyCompliance once more with the same
\* arguments
CallCheckPolicyComplianceAgain ==
    /\ call.fn = "checkPolicyCompliance"
    /\ ~call.again.done
    /\ call' = [ call EXCEPT
                   !.again = [ done |-> TRUE, at |-> now,
                               result |-> CheckPolicyCompliance(
                                   policies, call.claimsAfter, call.schema, now) ] ]
    /\ UNCHANGED <<now, policies, wallet, att, task, server, client, reqs, boot, fetches, test, page>>

\* a direct call of authorize
CallAuthorize(claims) ==
    /\ call.fn = "none"
    /\ call' = [ NoCall EXCEPT
                   !.fn = "authorize",
                   !.claims = claims,
                   !.claimsAfter = claims,
                   !.at = now,
                   !.grant = Authorize(claims) ]
    /\ UNCHANGED <<now, policies, wallet, att, task, server, client, reqs, boot, fetches, test, page>>

\* the caller drops the result
Return ==
    /\ call.fn # "none"
    /\ call' = NoCall
    /\ UNCHANGED <<now, policies, wallet, att, task, server, client, reqs, boot, fetches, test, page>>

NextPolicy ==
    \/ Tick
    \/ Return
    \/ \E c \in PolicyClaims, rs \in SchemaValues : CallCheckPolicyCompliance(c, rs)
    \/ CallCheckPolicyComplianceAgain
    \/ \E c \in PolicyClaims : CallAuthorize(c)

SpecPolicy == Init /\ [][NextPolicy]_vars

\* POST /ai/task arrives and is answered; the handler has no await
AiTask(authToken, taskType, taskData) ==
    /\ task' = [ pc |-> "done", authToken |-> authToken, taskType |-> taskType,
                 taskData |-> taskData, at |-> now,
                 response |-> AiTaskHandler(authToken, taskType, taskData) ]
    /\ UNCHANGED <<now, policies, call, wallet, att, server, client, reqs, boot, fetches, test, page>>

NextTask ==
    \/ Tick
    \/ \E authToken \in TaskTokens(now), taskType \in TaskTypes,
          taskData \in TaskDataValues :
           AiTask(authToken, taskType, taskData)

SpecTask == Init /\ [][NextTask]_vars

\* a client run starts: the key pair and the DID are made
ClientStart(kind, did) ==
    /\ client.pc \in {"init", "done", "failed"}
    /\ att.pc \in {"idle", "done"}
    /\ client' = EstablishIdentity(kind, did)
    /\ UNCHANGED <<now, policies, call, wallet, att, task, server, reqs, boot, fetches, test, page>>

\* await getAgentCard() / fetch('/agent-card') resumes the client
ClientFetchCard(card) ==
    /\ client.pc = "fetchingCard"
    /\ client' = CardFetched(client, card)
    /\ UNCHANGED <<now, policies, call, wallet, att, task, server, reqs, boot, fetches, test, page>>

\* the verification of the server's presentation has settled
ClientVerifyServer ==
    /\ client.pc = "verifyingServer"
    /\ client' = IF client.kind = "cli"
                 THEN CliServerVerified(client) ELSE BrowserServerVerified(client)
    /\ UNCHANGED <<now, policies, call, wallet, att, task, server, reqs, boot, fetches, test, page>>

\* the client asks the issuer for a credential
ClientRequestCredential ==
    /\ client.pc = "requestingCredential"
    /\ client' = CredentialRequested(client)
    /\ UNCHANGED <<now, policies, call, wallet, att, task, server, reqs, boot, fetches, test, page>>

\* the issuer's answer resumes the client
ClientReceiveCredential(ok) ==
    /\ client.pc = "awaitingCredential"
    /\ client' = CredentialReceived(client, ok, now)
    /\ UNCHANGED <<now, policies, call, wallet, att, task, server, reqs, boot, fetches, test, page>>

\* createVerifiablePresentationJwt / /api/create-vp resumes the client
ClientBuildPresentation(ok) ==
    /\ client.pc = "building"
    /\ client' = PresentationBuilt(client, ok)
    /\ UNCHANGED <<now, policies, call, wallet, att, task, server, reqs, boot, fetches, test, page>>

\* the client posts its presentation: the browser to /a2a/authenticate, the
\* CLI client to /a2a/message
ClientSendPresentation(version) ==
    /\ client.pc = "sending"
    /\ att.pc \in {"idle", "done"}
    /\ client' = PresentationSent(client)
    /\ att' = IF client.kind = "browser"
              THEN Receive(client.vpJwt)
              ELSE IF version = "earlier"
              THEN ReceiveMessage(client.vpJwt)
              ELSE [IdleAttempt EXCEPT
                      !.route = "/a2a/message", !.pc = "done",
                      !.responses = <<ErrorResponse(404, NotFoundError)>>]
    /\ UNCHANGED <<now, policies, call, wallet, task, server, reqs, boot, fetches, test, page>>

\* the server's response resumes the client
ClientReadResponse ==
    /\ client.pc = "awaitingResponse"
    /\ att.pc = "done"
    /\ client' = IF client.kind = "browser"
                 THEN BrowserResponseRead(client, att.responses[1])
                 ELSE CliResponseRead(client, att.responses[1])
    /\ UNCHANGED <<now, policies, call, wallet, att, task, server, reqs, boot, fetches, test, page>>

NextClient ==
    \/ Tick
    \/ \E kind \in ClientKinds, did \in Holders : ClientStart(kind, did)
    \/ \E card \in CardValues(server, now) : ClientFetchCard(card)
    \/ ClientVerifyServer
    \/ ClientRequestCredential
    \/ \E ok \in BOOLEAN : ClientReceiveCredential(ok)
    \/ \E ok \in BOOLEAN : ClientBuildPresentation(ok)
    \/ \E version \in ServerVersions : ClientSendPresentation(version)
    \/ VerifySettles
    \/ RevocationSettles
    \/ ClientReadResponse

SpecClient == Init /\ [][NextClient]_vars

\* a plausible addition: the server refuses a presentation that another
\* slot has already met
SubmitOnce(i, route, vpJwt) ==
    /\ reqs[i].pc \in {"idle", "done"}
    /\ reqs' = [reqs EXCEPT ![i] =
                  IF vpJwt.has /\ \E j \in 1..MaxReq : j # i /\ reqs[j].vp = vpJwt
                  THEN Catch([IdleAttempt EXCEPT !.route = route, !.vp = vpJwt],
                             VerifyError)
                  ELSE IF route = "/a2a/message"
                  THEN ReceiveMessage(vpJwt) ELSE Receive(vpJwt)]
    /\ UNCHANGED <<now, policies, call, wallet, att, task, server, client, boot, fetches, test, page>>

\* a request carrying vpJwt arrives at a route and takes slot i
Submit(i, route, vpJwt) ==
    /\ reqs[i].pc \in {"idle", "done"}
    /\ reqs' = [reqs EXCEPT ![i] =
                  IF route = "/a2a/message"
                  THEN ReceiveMessage(vpJwt) ELSE Receive(vpJwt)]
    /\ UNCHANGED <<now, policies, call, wallet, att, task, server, client, boot, fetches, test, page>>

\* await verifyPresentation(...) resumes the handler of slot i
VerifySettlesReq(i) ==
    /\ reqs[i].pc = "verifying"
    /\ reqs' = [reqs EXCEPT ![i] =
                  IF @.route = "/a2a/message"
                  THEN AfterVerifyMessage(@) ELSE AfterVerify(@)]
    /\ UNCHANGED <<now, policies, call, wallet, att, task, server, client, boot, fetches, test, page>>

\* a plausible slip: the handler adds the action it met to the whitelist
RevocationSettlesReqLearning(i) ==
    /\ reqs[i].pc = "revoking"
    /\ reqs' = [reqs EXCEPT ![i] = AfterRevocation(@, policies, now)]
    /\ policies' =
           LET taskAction == TaskAction(CredentialSubject(reqs[i].credential))
           IN  IF Truthy(taskAction) /\ ~Includes(policies.allowedActions, taskAction)
               THEN [policies EXCEPT !.allowedActions = Append(@, taskAction)]
               ELSE policies
    /\ UNCHANGED <<now, call, wallet, att, task, server, client, boot, fetches, test, page>>

\* await checkRevocationStatus(...) resumes the handler of slot i; the rest
\* of the handler reads policyValidator.policies and writes nothing outside
\* its locals
RevocationSettlesReq(i) ==
    /\ reqs[i].pc = "revoking"
    /\ reqs' = [reqs EXCEPT ![i] = AfterRevocation(@, policies, now)]
    /\ UNCHANGED <<now, policies, call, wallet, att, task, server, client, boot, fetches, test, page>>

\* GET /agent-card is served: initializeServer runs only when
\* serverInitialized is not set (part_001:340-342)
GetAgentCard ==
    /\ server' = IF server.serverInitialized THEN server ELSE InitializeServer(now)
    /\ UNCHANGED <<now, policies, call, wallet, att, task, client, reqs, boot, fetches, test, page>>

\* time passes while requests are served
ServerTick ==
    /\ \E t \in ReplayClockValues : t > now /\ now' = t
    /\ UNCHANGED <<policies, call, wallet, att, task, server, client, reqs, boot, fetches, test, page>>

NextServer ==
    \/ ServerTick
    \/ \E td \in ReplayTaskDatas : IssueCredential("did:H1", td)
    \/ \E i \in 1..MaxReq, route \in Routes, vpJwt \in ReplayPresentations(wallet) :
           Submit(i, route, vpJwt)
    \/ \E i \in 1..MaxReq : VerifySettlesReq(i)
    \/ \E i \in 1..MaxReq : RevocationSettlesReq(i)
    \/ GetAgentCard

SpecServer == Init /\ [][NextServer]_vars

\* /a2a/authenticate met with every kind of declared action: the issuer
\* certifies whatever taskData it is handed (issuer.js:31-56)
ActionTaskDatas == {NoTaskLog} \cup {TaskLog(a) : a \in ActionValues}

NextActions ==
    \/ ServerTick
    \/ \E td \in ActionTaskDatas : IssueCredential("did:H1", td)
    \/ \E vpJwt \in ReplayPresentations(wallet) : Authenticate(vpJwt)
    \/ VerifySettles
    \/ RevocationSettles

SpecActions == Init /\ [][NextActions]_vars

\* /a2a/authenticate met with presentations of did:H1 that embed up to
\* MaxCreds credentials: the issued one and copies changed after signing
PositionPresentations(w) ==
    {NoVp} \cup
    { PresentationJwt("did:H1", ok, cs) :
        ok \in BOOLEAN, cs \in SeqsUpTo(Embeddable(w), MaxCreds) }

NextPositions ==
    \/ ServerTick
    \/ \E td \in ReplayTaskDatas : IssueCredential("did:H1", td)
    \/ \E vpJwt \in PositionPresentations(wallet) : Authenticate(vpJwt)
    \/ VerifySettles
    \/ RevocationSettles

SpecPositions == Init /\ [][NextPositions]_vars

\* a client takes the server's service credential out of the presentation
\* of the agent card
TakeServiceCredential ==
    /\ ~wallet.has
    /\ AgentCard(server, now).serverVP.has
    /\ wallet' = AgentCard(server, now).serverVP.verifiableCredential[1]
    /\ UNCHANGED <<now, policies, call, att, task, server, client, reqs, boot, fetches, test, page>>

\* the taskData of the credentials of either kind that are presented
KindTaskDatas ==
    {TaskLog(a) : a \in {"OrderPizza", "QueryStatus", "UpdateProfile", "DeleteAccount"}}

\* /a2a/authenticate met with the credentials the issuer produces
NextKinds ==
    \/ ServerTick
    \/ \E h \in Holders, td \in KindTaskDatas : IssueCredential(h, td)
    \/ TakeServiceCredential
    \/ \E vpJwt \in ReplayPresentations(wallet) : Authenticate(vpJwt)
    \/ VerifySettles
    \/ RevocationSettles

SpecKinds == Init /\ [][NextKinds]_vars

\* the start button is pressed: a disabled button gives no click
PageStart(did) ==
    /\ ~page.startBtnDisabled
    /\ att.pc \in {"idle", "done"}
    /\ client' = EstablishIdentity("browser", did)
    /\ page' = PageStarted
    /\ UNCHANGED <<now, policies, call, wallet, att, task, server, reqs, boot, fetches, test>>

\* an await of the handshake before the presentation is posted settles
PageHandshakeStep ==
    /\ page.pc = "handshake"
    /\ \E c \in
          CASE client.pc = "fetchingCard" ->
                   {CardFetched(client, card) : card \in CardValues(server, now)}
            [] client.pc = "verifyingServer" -> {BrowserServerVerified(client)}
            [] client.pc = "requestingCredential" -> {CredentialRequested(client)}
            [] client.pc = "awaitingCredential" ->
                   {CredentialReceived(client, ok, now) : ok \in BOOLEAN}
            [] client.pc = "building" -> {PresentationBuilt(client, ok) : ok \in BOOLEAN}
            [] OTHER -> {} :
          /\ client' = c
          /\ page' = PageAfterStep(page, c)
    /\ UNCHANGED <<now, policies, call, wallet, att, task, server, reqs, boot, fetches, test>>

\* the page posts its presentation to /a2a/authenticate
PageSendPresentation ==
    /\ page.pc = "handshake"
    /\ client.pc = "sending"
    /\ att.pc \in {"idle", "done"}
    /\ client' = PresentationSent(client)
    /\ att' = Receive(client.vpJwt)
    /\ UNCHANGED <<now, policies, call, wallet, task, server, reqs, boot, fetches, test, page>>

\* the answer of /a2a/authenticate resumes the page
PageReadResponse ==
    /\ page.pc = "handshake"
    /\ client.pc = "awaitingResponse"
    /\ att.pc = "done"
    /\ LET c == BrowserResponseRead(client, att.responses[1])
       IN  /\ client' = c
           /\ page' = IF c.pc = "failed" THEN PageAfterStep(page, c) ELSE PageDispatch(page)
    /\ UNCHANGED <<now, policies, call, wallet, att, task, server, reqs, boot, fetches, test>>

\* performAITask posts to /ai/task and the server's handler, which has no
\* await, answers
PageSendTask ==
    /\ page.pc = "dispatching"
    /\ page' = PageTaskSent(page, client)
    /\ LET r == TaskRequest(client.token, "OrderPizza")
       IN  task' = [ pc |-> "done", authToken |-> r.authToken, taskType |-> r.taskType,
                     taskData |-> r.taskData, at |-> now,
                     response |-> AiTaskHandler(r.authToken, r.taskType, r.taskData) ]
    /\ UNCHANGED <<now, policies, call, wallet, att, server, client, reqs, boot, fetches, test>>

\* the answer of /ai/task, or the failure of the fetch, resumes the page
PageTaskSettles(delivered) ==
    /\ page.pc = "awaitingTask"
    /\ page' = PageTaskSettled(page, IF delivered THEN task.response
                                     ELSE TaskResponse(0, FALSE, Undef, NoDetails))
    /\ UNCHANGED <<now, policies, call, wallet, att, task, server, client, reqs, boot, fetches, test>>

NextBrowser ==
    \/ Tick
    \/ \E did \in Holders : PageStart(did)
    \/ PageHandshakeStep
    \/ PageSendPresentation
    \/ VerifySettles
    \/ RevocationSettles
    \/ PageReadResponse
    \/ PageSendTask
    \/ \E delivered \in BOOLEAN : PageTaskSettles(delivered)

SpecBrowser == Init /\ [][NextBrowser]_vars

\* the CLI client's own VCIssuer signs a credential for the holder
\* (3_client.js:133, 146; issuer.js:31-56)
ClientIssueCredential(holderDID, taskData) ==
    /\ ~wallet.has
    /\ wallet' = ClientIssueTaskLogVC(holderDID, taskData, now)
    /\ UNCHANGED <<now, policies, call, att, task, server, client, reqs, boot, fetches, test, page>>

\* POST /api/create-vc: a holder has a payload of its choice signed with
\* its own key
CreateVc(sub, keyOwner, taskData) ==
    /\ ~wallet.has
    /\ wallet' = CreateVcHandler(sub, keyOwner, taskData, now)
    /\ UNCHANGED <<now, policies, call, att, task, server, client, reqs, boot, fetches, test, page>>

\* /a2a/authenticate met with credentials of the three origins
NextIssuers ==
    \/ ServerTick
    \/ \E td \in ReplayTaskDatas : IssueCredential("did:H1", td)
    \/ \E td \in ReplayTaskDatas : ClientIssueCredential("did:H1", td)
    \/ \E sub \in Holders, td \in ReplayTaskDatas : CreateVc(sub, "did:H1", td)
    \/ \E vpJwt \in ReplayPresentations(wallet) : Authenticate(vpJwt)
    \/ VerifySettles
    \/ RevocationSettles

SpecIssuers == Init /\ [][NextIssuers]_vars

\* the state when node has loaded 2_server.js, in either version
InitBoot ==
    /\ now = Epoch
    /\ policies = PolicyRules
    /\ call = NoCall
    /\ wallet = NoJwt
    /\ att = IdleAttempt
    /\ task = NoTask
    /\ server = LoadServer
    /\ client = IdleClient
    /\ reqs = [i \in 1..MaxReq |-> IdleAttempt]
    /\ \E version \in ServerVersions : boot = Loaded(version)
    /\ fetches = NoFetches
    /\ test = NoTest
    /\ page = NoPage

\* await issuer.issueServiceEndpointVC(...) settles
BootIssueVC ==
    /\ boot.pc = "loaded"
    /\ server' = VcIssued(server, now)
    /\ boot' = [boot EXCEPT !.pc = "vcIssued"]
    /\ UNCHANGED <<now, policies, call, wallet, att, task, client, reqs, fetches, test, page>>

\* await createVerifiablePresentationJwt(...) settles
BootBuildVP ==
    /\ boot.pc = "vcIssued"
    /\ server' = VpBuilt(server, boot.version)
    /\ boot' = [boot EXCEPT !.pc = "initialized"]
    /\ UNCHANGED <<now, policies, call, wallet, att, task, client, reqs, fetches, test, page>>

\* the later version's app.listen, after await initializeServer()
Listen ==
    /\ boot.version = "later" /\ boot.pc = "initialized" /\ ~boot.listening
    /\ boot' = [boot EXCEPT !.listening = TRUE]
    /\ UNCHANGED <<now, policies, call, wallet, att, task, server, client, reqs, fetches, test, page>>

\* GET /agent-card is handled and answered
ServeCard ==
    /\ boot.listening /\ Len(boot.cards) < MaxCards
    /\ boot' = [boot EXCEPT !.cards =
                   Append(@, IF boot.version = "later"
                             THEN AgentCard(server, now)
                             ELSE EarlierAgentCard(server))]
    /\ server' = IF boot.version = "later" /\ ~server.serverInitialized
                 THEN InitializeServer(now) ELSE server
    /\ UNCHANGED <<now, policies, call, wallet, att, task, client, reqs, fetches, test, page>>

NextBoot ==
    \/ Tick
    \/ \E h \in Holders, td \in TaskDatas : IssueCredential(h, td)
    \/ BootIssueVC
    \/ BootBuildVP
    \/ Listen
    \/ ServeCard

SpecBoot == InitBoot /\ [][NextBoot]_vars

\* run() begins: new DIDAuthHandler()
StartRun(version, didString) ==
    /\ fetches.pc = "idle"
    /\ fetches' = [NoFetches EXCEPT !.pc = "running", !.version = version,
                                    !.didString = didString]
    /\ UNCHANGED <<now, policies, call, wallet, att, task, server, client, reqs, boot, test, page>>

\* client.getAgentCard() or client.sendMessage(msg) hands a request to
\* customFetch
CallFetch(url) ==
    /\ fetches.pc = "running" /\ Len(fetches.calls) < MaxFetch
    /\ fetches' = CustomFetch(fetches, url, now)
    /\ UNCHANGED <<now, policies, call, wallet, att, task, server, client, reqs, boot, test, page>>

NextFetch ==
    \/ Tick
    \/ \E version \in ClientVersions, didString \in Holders : StartRun(version, didString)
    \/ \E url \in {CardUrl, MessageUrl} : CallFetch(url)

SpecFetch == Init /\ [][NextFetch]_vars

\* node test_all.js: the module spawns 1_chain.js at once
RunTest(file) ==
    /\ test.pc = "idle"
    /\ test' = Happened([NoTest EXCEPT !.pc = "running", !.file = file,
                                       !.chain = "running"], "spawn chain")
    /\ UNCHANGED <<now, policies, call, wallet, att, task, server, client, reqs, boot, fetches, page>>

\* 1_chain.js has deployed the registry and prints its address
ChainReport ==
    /\ test.pc = "running" /\ test.chain = "running"
    /\ test' = Happened([test EXCEPT !.chain = "reported"], "chain reports address")
    /\ UNCHANGED <<now, policies, call, wallet, att, task, server, client, reqs, boot, fetches, page>>

\* 1_chain.js writes registry_address.txt, the statement after the print
ChainWriteFile ==
    /\ test.pc = "running" /\ test.chain = "reported"
    /\ test' = Happened([test EXCEPT !.chain = "written", !.file = "fresh"],
                        "chain writes file")
    /\ UNCHANGED <<now, policies, call, wallet, att, task, server, client, reqs, boot, fetches, page>>

\* the handler of the chain's stdout sees the address line and sets the
\* timer for startServer
OnChainData ==
    /\ test.pc = "running" /\ test.chain \in {"reported", "written"}
    /\ test.serverTimer = "none"
    /\ test' = [test EXCEPT !.serverTimer = "set"]
    /\ UNCHANGED <<now, policies, call, wallet, att, task, server, client, reqs, boot, fetches, page>>

\* the timer fires: startServer spawns 2_server.js
StartServer ==
    /\ test.pc = "running" /\ test.serverTimer = "set"
    /\ test' = Happened([test EXCEPT !.server = "spawned", !.serverTimer = "fired"],
                        "spawn server")
    /\ UNCHANGED <<now, policies, call, wallet, att, task, server, client, reqs, boot, fetches, page>>

\* 2_server.js loads: it reads registry_address.txt (and ends when there is
\* none), then listens and prints that it is running
ServerStartup ==
    /\ test.pc = "running" /\ test.server = "spawned"
    /\ test' = IF test.file = "none"
               THEN Happened([test EXCEPT !.server = "crashed"], "server crashes")
               ELSE Happened([test EXCEPT !.server = "listening",
                                          !.serverRead = test.file],
                             "server reports listening")
    /\ UNCHANGED <<now, policies, call, wallet, att, task, server, client, reqs, boot, fetches, page>>

\* the handler of the server's stdout sees the listening line and sets the
\* timer for startClient
OnServerData ==
    /\ test.pc = "running" /\ test.server = "listening"
    /\ test.clientTimer = "none"
    /\ test' = [test EXCEPT !.clientTimer = "set"]
    /\ UNCHANGED <<now, policies, call, wallet, att, task, server, client, reqs, boot, fetches, page>>

\* the timer fires: startClient spawns 3_client.js
StartClient ==
    /\ test.pc = "running" /\ test.clientTimer = "set"
    /\ test' = Happened([test EXCEPT !.client = "running", !.clientTimer = "fired"],
                        "spawn client")
    /\ UNCHANGED <<now, policies, call, wallet, att, task, server, client, reqs, boot, fetches, page>>

\* the client process closes: the handler notes the code and sets the
\* cleanup timer
ClientClose(close) ==
    /\ test.pc = "running" /\ test.client = "running"
    /\ test' = Happened([test EXCEPT !.client = "closed", !.close = close],
                        "client closes")
    /\ UNCHANGED <<now, policies, call, wallet, att, task, server, client, reqs, boot, fetches, page>>

\* the cleanup timer fires: the children are killed and the test exits with
\* the code of the close event
Cleanup ==
    /\ test.pc = "running" /\ test.client = "closed"
    /\ test' = Happened([test EXCEPT !.pc = "exited", !.exitCode = ProcessExit(test.close)],
                        "exit")
    /\ UNCHANGED <<now, policies, call, wallet, att, task, server, client, reqs, boot, fetches, page>>

\* Ctrl+C: the SIGINT handler kills the children and calls process.exit()
Sigint ==
    /\ test.pc = "running"
    /\ test' = Happened([test EXCEPT !.pc = "exited", !.sigint = TRUE, !.exitCode = 0],
                        "exit")
    /\ UNCHANGED <<now, policies, call, wallet, att, task, server, client, reqs, boot, fetches, page>>

NextTest ==
    \/ \E file \in {"none", "stale"} : RunTest(file)
    \/ ChainReport
    \/ ChainWriteFile
    \/ OnChainData
    \/ StartServer
    \/ ServerStartup
    \/ OnServerData
    \/ StartClient
    \/ \E close \in CloseCodes : ClientClose(close)
    \/ Cleanup
    \/ Sigint

SpecTest == Init /\ [][NextTest]_vars

-----------------------------------------------------------------------------
(* Properties of /a2a/authenticate *)

\* the attempt has answered with a token
TokenIssued(a) ==
    \E i \in 1..Len(a.responses) : a.responses[i].authToken.enc # "none"

StepNames(a) == [i \in 1..Len(a.log) |-> a.log[i].step]

C2_FailureIsTerminal ==
    /\ Len(att.responses) <= 1
    /\ \A i, j \in 1..Len(att.log) : att.log[i].step = att.log[j].step => i = j
    /\ \A i \in 1..Len(att.log) :
           ~att.log[i].ok =>
               /\ i = Len(att.log)
               /\ att.pc = "done"
               /\ Len(att.responses) = 1
               /\ att.responses[1].status = 403
               /\ att.responses[1].authToken = NoToken
    /\ att.pc = "done" => Len(att.responses) = 1

C2_Witness ==
    /\ att.pc = "done"
    /\ Len(att.log) = 4
    /\ att.log[4] = Step("checkPolicyCompliance", FALSE)

\* C3: a presentation that embeds a credential whose issuer signature is
\* invalid is rejected in full: no credential of it is used and no token is
\* issued.
C3_AllOrNothing ==
    (/\ att.vp.has
     /\ \E i \in 1..Len(att.vp.verifiableCredential) :
            ~att.vp.verifiableCredential[i].sigOK)
    => /\ ~TokenIssued(att)
       /\ att.pc # "revoking"
       /\ att.revocationCalls = <<>>

\* C4 as stated: the revocation check is called once for each credential the
\* presentation embeds.
C4_OncePerEmbeddedCredential ==
    (att.pc = "done" /\ att.vp.has /\ ~VerifyPresentation(att.vp).threw)
    => /\ Len(att.revocationCalls) = Len(att.vp.verifiableCredential)
       /\ (att.revocationStatus.revoked =>
               att.responses = <<ErrorResponse(403,
                                    RevokedError(att.revocationStatus.reason))>>)

\* C4 amended: the revocation check is called at most once in an attempt:
\* exactly once, on the first embedded credential, when the presentation
\* verified and embeds a credential, and not at all otherwise; a revoked
\* answer ends the attempt with a 403 that carries the reason.
C4_OnceForFirstCredential ==
    /\ Len(att.revocationCalls) <= 1
    /\ (att.pc \in {"revoking", "done"} /\ att.vp.has
        /\ ~VerifyPresentation(att.vp).threw
        /\ Len(att.vp.verifiableCredential) >= 1)
       => att.revocationCalls =
              <<NormalizeCredential(att.vp.verifiableCredential[1])>>
    /\ (att.pc = "done"
        /\ (~att.vp.has \/ VerifyPresentation(att.vp).threw
            \/ Len(att.vp.verifiableCredential) = 0))
       => att.revocationCalls = <<>>
    /\ (att.pc = "done" /\ att.revocationStatus.revoked)
       => att.responses = <<ErrorResponse(403,
                               RevokedError(att.revocationStatus.reason))>>

C4_Witness ==
    /\ att.pc = "done"
    /\ ~VerifyPresentation(att.vp).threw
    /\ Len(att.vp.verifiableCredential) = 2
    /\ att.vp.verifiableCredential[1] # att.vp.verifiableCredential[2]
    /\ Len(att.revocationCalls) = 1

\* C8: a verified presentation whose first credential declares an action
\* outside the whitelist is found not compliant with an error naming that
\* action, and the attempt ends with a 403 and no token.
DisallowedAction(jwt) ==
    LET act == TaskAction(CredentialSubject(NormalizeCredential(jwt)))
    IN  Truthy(act) /\ act \notin {"OrderPizza", "QueryStatus", "UpdateProfile"}

C8_DisallowedActionRejected ==
    (/\ att.pc = "done" /\ att.vp.has
     /\ ~VerifyPresentation(att.vp).threw
     /\ Len(att.vp.verifiableCredential) >= 1
     /\ DisallowedAction(att.vp.verifiableCredential[1]))
    => LET act == att.vp.verifiableCredential[1].vc.credentialSubject.taskLog.action
       IN  /\ ~att.complianceResult.compliant
           /\ \E i \in 1..Len(att.complianceResult.errors) :
                  att.complianceResult.errors[i] = Violation("action", act, 0)
           /\ att.responses =
                  <<ErrorResponse(403, PolicyError(att.complianceResult.errors))>>
           /\ ~TokenIssued(att)

C8_Witness ==
    /\ att.pc = "done" /\ att.vp.has /\ att.vp.sigOK
    /\ Len(att.vp.verifiableCredential) = 1
    /\ att.vp.verifiableCredential[1].sigOK
    /\ att.vp.verifiableCredential[1].vc.credentialSubject.taskLog
           = TaskLog("DeleteAccount")

\* C9: a TaskLog credential issued at T for holder H with action OrderPizza
\* and presented by H, authenticated at T + 10 s: compliant, the grant has
\* permissions {read:menu, write:order} and expiresIn 3600, and the token's
\* exp is the authentication time in whole seconds plus 3600.
EndToEndCase(a) ==
    /\ a.pc = "done" /\ a.vp.has /\ a.vp.sigOK
    /\ Len(a.vp.verifiableCredential) >= 1
    /\ \E h \in Holders, T \in ClockValues :
           /\ a.vp.verifiableCredential[1] = IssueTaskLogVC(h, TaskLog("OrderPizza"), T)
           /\ a.vp.iss = h
           /\ a.at = T + 10000

C9_EndToEnd ==
    EndToEndCase(att) =>
        LET jwt == att.vp.verifiableCredential[1]
        IN  /\ att.complianceResult =
                   [threw |-> FALSE, compliant |-> TRUE, errors |-> <<>>]
            /\ att.authResult.permissions = <<"read:menu", "write:order">>
            /\ att.authResult.expiresIn = 3600
            /\ Len(att.responses) = 1
            /\ att.responses[1].status = 200
            /\ att.responses[1].clientDid = jwt.sub
            /\ LET payload == JsonParse(Base64Decode(att.responses[1].authToken))
               IN  /\ payload.did = jwt.sub
                   /\ payload.action = "OrderPizza"
                   /\ payload.permissions = <<"read:menu", "write:order">>
                   /\ payload.exp = (att.at \div 1000) + 3600
                   /\ payload.exp # jwt.nbf + 3600

C9_Witness == EndToEndCase(att)

\* the token object generateAuthToken made for the grant of the attempt
TokenOf(a) == GenerateAuthToken(a.authResult, a.at)

\* C24 as stated: the decoded accessToken has exactly the fields did,
\* action, permissions and exp, equal to the grant's holderDID, action and
\* permissions and to the clock in whole seconds plus expiresIn.
C24_FourFields ==
    TokenIssued(att) =>
        LET text == Base64Decode(att.responses[1].authToken)
        IN  /\ text.keys = <<"did", "action", "permissions", "exp">>
            /\ JsonParse(text) =
                   [ did |-> att.authResult.holderDID,
                     action |-> att.authResult.action,
                     permissions |-> att.authResult.permissions,
                     exp |-> (att.at \div 1000) + att.authResult.expiresIn ]

\* C24, amended: the decoded accessToken has, in this order, the fields
\* did, action, permissions and exp, without did or action when the
\* grant's holderDID or action is undefined; reading did, action and
\* permissions off it gives the grant's values, exp is the clock in whole
\* seconds plus expiresIn; the token object has tokenType 'Bearer', the
\* accessToken and expiresIn, and the accessToken is the base64 text of
\* the JSON alone, with no signature.
C24_DefinedFields ==
    TokenIssued(att) =>
        LET text == Base64Decode(att.responses[1].authToken)
            grant == att.authResult
        IN  /\ text.keys =
                   SelectSeq(<<"did", "action", "permissions", "exp">>,
                             LAMBDA k : /\ k = "did" => grant.holderDID # Undef
                                        /\ k = "action" => grant.action # Undef)
            /\ JsonParse(text) =
                   [ did |-> grant.holderDID,
                     action |-> grant.action,
                     permissions |-> grant.permissions,
                     exp |-> (att.at \div 1000) + grant.expiresIn ]
            /\ att.responses[1].authToken = TokenOf(att).accessToken
            /\ DOMAIN TokenOf(att) = {"tokenType", "accessToken", "expiresIn"}
            /\ TokenOf(att).tokenType = "Bearer"
            /\ TokenOf(att).expiresIn = grant.expiresIn
            /\ DOMAIN TokenOf(att).accessToken = {"enc", "text"}
            /\ TokenOf(att).accessToken.enc = "base64"

\* a token was issued for a grant without an action, after time had passed
C24_Witness ==
    /\ TokenIssued(att)
    /\ att.authResult.action = Undef
    /\ att.authResult.holderDID = "did:H2"
    /\ att.at > Epoch

-----------------------------------------------------------------------------
(* Properties of the policy engine, under SpecPolicy *)

\* the number of errors a result holds for a rule
ErrorsOf(result, rule) ==
    Cardinality({i \in 1..Len(result.errors) : result.errors[i].rule = rule})

\* C5: every rule is evaluated on every call that returns and every
\* violation is returned: one error per violated rule, one per missing required key, and
\* compliant exactly when there is no error.
C5_AllViolationsCollected ==
    (call.fn = "checkPolicyCompliance" /\ ~call.result.threw) =>
        LET c == call.claims
            cs == CredentialSubject(c)
            r == call.result
            types == VcTypes(c)
            act == TaskAction(cs)
            typeBad == \A i \in 1..Len(types) : types[i] # "TaskLogCredential"
            actionBad == /\ Truthy(act)
                         /\ act \notin {"OrderPizza", "QueryStatus", "UpdateProfile"}
            expired == /\ cs.issuedAt.kind = "iso"
                       /\ call.at - cs.issuedAt.ms > 3600 * 1000
            missing == {k \in 1..Len(call.schema.keys) :
                            ~HasKey(cs, call.schema.keys[k])}
        IN  /\ ErrorsOf(r, "type") = (IF typeBad THEN 1 ELSE 0)
            /\ ErrorsOf(r, "action") = (IF actionBad THEN 1 ELSE 0)
            /\ ErrorsOf(r, "expired") = (IF expired THEN 1 ELSE 0)
            /\ ErrorsOf(r, "schema") = Cardinality(missing)
            /\ \A k \in missing :
                   \E i \in 1..Len(r.errors) :
                       r.errors[i] = Violation("schema", call.schema.keys[k], 0)
            /\ Len(r.errors) = ErrorsOf(r, "type") + ErrorsOf(r, "action")
                               + ErrorsOf(r, "expired") + ErrorsOf(r, "schema")
            /\ r.compliant <=> (r.errors = <<>>)

C5_Witness ==
    /\ call.fn = "checkPolicyCompliance"
    /\ Len(call.result.errors) = 5
    /\ ErrorsOf(call.result, "schema") = 2

\* the claims with issuedAt set to the clock reading t
Refreshed(claims, t) ==
    [claims EXCEPT !.credentialSubject.issuedAt = ToISOString(t),
                   !.vc.credentialSubject.issuedAt = ToISOString(t)]

\* all rules but freshness are satisfied
OtherRulesSatisfied(claims, requiredSchema, t) ==
    /\ CredentialSubject(claims).issuedAt.kind = "iso"
    /\ CheckPolicyCompliance(PolicyRules, Refreshed(claims, t), requiredSchema, t).compliant

AgeMs(claims, t) == t - CredentialSubject(claims).issuedAt.ms

FreshnessHolds(claims, requiredSchema, t, result) ==
    OtherRulesSatisfied(claims, requiredSchema, t) =>
        /\ AgeMs(claims, t) = (MaxVCAge + 1) * 1000 =>
               result = [ threw |-> FALSE, compliant |-> FALSE,
                          errors |-> <<Violation("expired", "", MaxVCAge + 1)>> ]
        /\ AgeMs(claims, t) = (MaxVCAge - 1) * 1000 =>
               result = [threw |-> FALSE, compliant |-> TRUE, errors |-> <<>>]

\* C6: all else satisfied, a credential aged maxVCAge + 1 seconds is
\* rejected with an expiry violation and one aged maxVCAge - 1 seconds is
\* accepted.
C6_Freshness ==
    call.fn = "checkPolicyCompliance" =>
        /\ FreshnessHolds(call.claims, call.schema, call.at, call.result)
        /\ call.again.done =>
               FreshnessHolds(call.claims, call.schema, call.again.at, call.again.result)

C6_Witness ==
    /\ call.fn = "checkPolicyCompliance"
    /\ call.again.done
    /\ OtherRulesSatisfied(call.claims, call.schema, call.at)
    /\ AgeMs(call.claims, call.at) = (MaxVCAge - 1) * 1000
    /\ AgeMs(call.claims, call.again.at) = (MaxVCAge + 1) * 1000

\* C7: authorize maps the action to its fixed permission set and any other
\* action, or none, to the empty set.
C7_LeastPrivilege ==
    call.fn = "authorize" =>
        LET act == TaskAction(CredentialSubject(call.claims))
            granted == {call.grant.permissions[i] :
                            i \in 1..Len(call.grant.permissions)}
        IN  /\ ~call.grant.threw
            /\ granted = CASE act = "OrderPizza" -> {"read:menu", "write:order"}
                           [] act = "QueryStatus" -> {"read:status"}
                           [] act = "UpdateProfile" -> {"write:profile"}
                           [] OTHER -> {}

\* C10 as stated: a second call on the same claims gives the same result.
C10_Idempotent ==
    (call.fn = "checkPolicyCompliance" /\ call.again.done)
    => call.again.result = call.result

\* the credential is not older than maxVCAge at clock reading t
WithinWindow(claims, t) ==
    \/ CredentialSubject(claims).issuedAt.kind # "iso"
    \/ AgeMs(claims, t) <= MaxVCAge * 1000

\* C10 amended: a second call on the same claims gives the same result when
\* both calls read the same clock or the credential is within the freshness
\* window at both; no call changes the claims or the policy rule set.
C10_IdempotentWithinWindow ==
    /\ policies = PolicyRules
    /\ call.claimsAfter = call.claims
    /\ (/\ call.fn = "checkPolicyCompliance" /\ call.again.done
        /\ \/ call.again.at = call.at
           \/ WithinWindow(call.claims, call.at) /\ WithinWindow(call.claims, call.again.at))
       => call.again.result = call.result

C10_Witness ==
    /\ call.fn = "checkPolicyCompliance" /\ call.again.done
    /\ call.again.at > call.at
    /\ CredentialSubject(call.claims).issuedAt.kind = "iso"
    /\ AgeMs(call.claims, call.at) >= 0
    /\ WithinWindow(call.claims, call.again.at)
    /\ ~call.result.compliant

\* C11: no call of checkPolicyCompliance or authorize throws, whatever the
\* claims value: the first returns a {compliant, errors} result and the
\* second a grant.
C11_NeverThrows ==
    /\ call.fn = "checkPolicyCompliance" => ~call.result.threw
    /\ call.fn = "authorize" => ~call.grant.threw /\ call.grant.authorized

-----------------------------------------------------------------------------
(* Properties of /ai/task, under SpecTask *)

\* the token decodes to the payload generateAuthToken writes
WellFormedToken(authToken) == authToken.enc = "base64"

\* the token's exp is later than the clock reading t, in whole seconds
UnexpiredToken(authToken, t) == JsonParse(Base64Decode(authToken)).exp > t \div 1000

\* C12: a task is executed (answered with success) only for a token that is
\* well-formed and unexpired when the request is served.
C12_TaskOnlyWithValidToken ==
    (task.pc = "done" /\ task.response.status = 200)
    => /\ WellFormedToken(task.authToken)
       /\ UnexpiredToken(task.authToken, task.at)

-----------------------------------------------------------------------------
(* Properties of the clients, under SpecClient *)

\* the client's log holds the step with this outcome
HasStep(c, name, ok) == \E i \in 1..Len(c.log) : c.log[i] = Step(name, ok)

\* the run ended at the failed verification of the server's presentation
AbortedAtServerVerification(c) ==
    /\ c.pc = "failed"
    /\ Len(c.log) > 0
    /\ c.log[Len(c.log)] = Step("ServerPresentationVerified", FALSE)

\* C13 as stated: a failed verification of the server's presentation never
\* ends the client's run.
C13_VerificationNeverAborts == ~AbortedAtServerVerification(client)

\* C13 amended: in the CLI client a failed verification is logged and the
\* run goes on to the credential request as after a success; in the browser
\* client a failed verification, or a card without a presentation, ends the
\* run before a credential is requested, built into a presentation or sent.
C13_AdvisoryInCliOnly ==
    /\ (client.kind = "cli" /\ HasStep(client, "ServerPresentationVerified", FALSE))
       => /\ ~AbortedAtServerVerification(client)
          /\ client.error # "Server VP verification failed"
          /\ client.pc \in {"requestingCredential", "failed"}
                 => HasStep(client, "CredentialRequested", TRUE)
                    \/ client.pc = "requestingCredential"
    /\ (client.kind = "browser"
        /\ \/ HasStep(client, "ServerPresentationVerified", FALSE)
           \/ client.card.has /\ ~client.card.serverVP.has
                /\ client.pc # "verifyingServer")
       => /\ client.pc = "failed"
          /\ ~HasStep(client, "CredentialRequested", TRUE)
          /\ ~client.vcJwt.has
          /\ ~client.vpJwt.has
          /\ ~HasStep(client, "PresentationSent", TRUE)

C13_Witness ==
    /\ client.kind = "cli"
    /\ HasStep(client, "ServerPresentationVerified", FALSE)
    /\ HasStep(client, "PresentationSent", TRUE)
    /\ client.pc = "done"

\* the client's steps in their fixed order
ClientStepOrder ==
    << "IdentityEstablished", "ServerCardFetched", "ServerPresentationVerified",
       "CredentialRequested", "CredentialReceived", "PresentationBuilt",
       "PresentationSent", "TokenReceived" >>

\* the place of a step in the order
StepPosition(name) == CHOOSE k \in 1..Len(ClientStepOrder) : ClientStepOrder[k] = name

\* C14: the client's completed steps follow the fixed order: each step comes
\* directly after its predecessor (the verification of the server's
\* presentation may be left out), none is repeated; a presentation exists
\* only around a received credential, signed by the client, and is sent
\* only once built.
C14_FixedOrder ==
    LET names == StepNames(client)
        n == Len(names)
    IN  /\ \A i \in 1..n : names[i] \in {ClientStepOrder[k] : k \in 1..Len(ClientStepOrder)}
        /\ n >= 1 => names[1] = "IdentityEstablished"
        /\ \A i \in 2..n :
               \/ StepPosition(names[i]) = StepPosition(names[i - 1]) + 1
               \/ names[i] = "CredentialRequested" /\ names[i - 1] = "ServerCardFetched"
        /\ \A i \in 1..n :
               client.log[i].ok \/ (names[i] = "ServerPresentationVerified")
        /\ client.vcJwt.has => HasStep(client, "CredentialReceived", TRUE)
        /\ client.vpJwt.has =>
               /\ client.vcJwt.has
               /\ client.vpJwt = PresentationJwt(client.didString, TRUE, <<client.vcJwt>>)
               /\ HasStep(client, "PresentationBuilt", TRUE)
        /\ HasStep(client, "PresentationSent", TRUE) =>
               /\ client.vpJwt.has
               /\ att.vp \in {client.vpJwt, NoVp}
        /\ TokenTruthy(client.token) => HasStep(client, "PresentationSent", TRUE)

C14_Witness ==
    /\ client.pc = "done"
    /\ StepNames(client) = ClientStepOrder
    /\ TokenTruthy(client.token)

\* C15: when the server has accepted the client's presentation (answered
\* 200) and the client has read the response, the client holds the token
\* the server issued for that attempt and has completed TokenReceived.
C15_TokenReceived ==
    (client.pc \in {"done", "failed"} /\ client.response.status = 200)
    => /\ TokenIssued(att)
       /\ TokenTruthy(client.token)
       /\ client.token = att.responses[1].authToken
       /\ HasStep(client, "TokenReceived", TRUE)

-----------------------------------------------------------------------------
(* Properties of the server under side-by-side requests, under SpecServer *)

\* the tags of the error taxonomy
TaxonomyTags ==
    { "IdentityNotFound", "InvalidSignature", "InvalidCredentialSignature",
      "CredentialExpired", "PolicyViolation", "RevocationDetected",
      "MissingCredential" }

\* the request came without a presentation or a step of its handler failed
Failed(a) == ~a.vp.has \/ \E k \in 1..Len(a.log) : ~a.log[k].ok

\* the step the handler ended at
LastStep(a) == a.log[Len(a.log)]

\* C16 as stated: every failure response carries a tag of the error taxonomy,
\* a reason and no grant.
C16_TaggedRejections ==
    \A i \in 1..MaxReq : \A k \in 1..Len(reqs[i].responses) :
        LET r == reqs[i].responses[k]
        IN  r.status # 200 =>
                /\ r.error.kind \in TaxonomyTags
                /\ r.authToken = NoToken

\* C16, amended: a request that fails is answered exactly once, with 401
\* (no presentation) or 403, and the body carries a reason text only: no
\* tag of the taxonomy, no token, no clientDid. On /a2a/authenticate the
\* reason is the message of the step that failed, and a policy failure
\* lists every error the compliance check found; on /a2a/message every
\* failure behind the presentation check is answered with one fixed text.
C16_ReasonOnly ==
    \A i \in 1..MaxReq :
        LET a == reqs[i]
        IN  /\ a.pc \in {"idle", "verifying", "revoking"} => a.responses = <<>>
            /\ a.pc = "done" =>
                 /\ Len(a.responses) = 1
                 /\ LET r == a.responses[1]
                    IN  /\ Failed(a) <=> r.status # 200
                        /\ Failed(a) =>
                             /\ r.status = (IF a.vp.has THEN 403 ELSE 401)
                             /\ r.authToken = NoToken
                             /\ r.clientDid = Undef
                             /\ r.error.kind \notin TaxonomyTags \cup {"none"}
                        /\ Failed(a) /\ a.route = "/a2a/message" =>
                             r.error = (IF a.vp.has THEN InvalidSignatureError
                                                    ELSE AuthRequiredError)
                        /\ Failed(a) /\ a.route = "/a2a/authenticate" /\ ~a.vp.has =>
                             r.error = VpRequiredError
                        /\ Failed(a) /\ a.route = "/a2a/authenticate" /\ a.vp.has =>
                             /\ ~LastStep(a).ok
                             /\ \A k \in 1..(Len(a.log) - 1) : a.log[k].ok
                             /\ LastStep(a).step = "verifyPresentation" =>
                                    r.error.kind = "verifyPresentation"
                             /\ LastStep(a).step = "credential" =>
                                    r.error.kind = "VC not found"
                             /\ LastStep(a).step = "checkRevocationStatus" =>
                                    /\ r.error.kind = "VC revoked"
                                    /\ r.error.reason = a.revocationStatus.reason
                             /\ LastStep(a).step = "checkPolicyCompliance" =>
                                    \/ a.complianceResult.threw /\ r.error.kind = "TypeError"
                                    \/ /\ ~a.complianceResult.threw
                                       /\ r.error.kind = "policy violation"
                                       /\ r.error.errors = a.complianceResult.errors
                                       /\ r.error.errors # <<>>
                             /\ LastStep(a).step = "authorize" =>
                                    r.error.kind \in {"TypeError", "not authorized"}

\* one request was refused for a policy violation with its errors listed
\* while another, on /a2a/message, met a presentation without a credential
\* and was answered with the fixed text
C16_Witness ==
    \E i, j \in 1..MaxReq :
        /\ reqs[i].pc = "done" /\ reqs[i].route = "/a2a/authenticate"
        /\ reqs[i].responses[1].status = 403
        /\ reqs[i].responses[1].error.kind = "policy violation"
        /\ Len(reqs[i].responses[1].error.errors) >= 1
        /\ reqs[j].pc = "done" /\ reqs[j].route = "/a2a/message"
        /\ reqs[j].responses = <<ErrorResponse(403, InvalidSignatureError)>>
        /\ LastStep(reqs[j]) = Step("credential", FALSE)

\* the presentation of slot a embeds the issued credential under a valid
\* signature, the credential's action is allowed, and the credential is
\* younger than maxVCAge at the handler's clock reading
ValidReplay(a) ==
    /\ wallet.has
    /\ a.route = "/a2a/authenticate"
    /\ a.vp = PresentationJwt(wallet.sub, TRUE, <<wallet>>)
    /\ Includes(policies.allowedActions,
                TaskAction(CredentialSubject(NormalizeCredential(wallet))))
    /\ AgeMs(NormalizeCredential(wallet), a.at) < MaxVCAge * 1000

\* C18: every submission of the same valid presentation, one after another
\* or side by side, while its credential is younger than maxVCAge, passes
\* every step and is answered with a token computed from the presentation
\* and the clock alone; what other requests carried or were answered plays
\* no part.
C18_EveryReplaySucceeds ==
    \A i \in 1..MaxReq :
        LET a == reqs[i]
            claims == NormalizeCredential(wallet)
        IN  /\ ValidReplay(a) /\ a.pc = "revoking" =>
                 a.log = <<Step("verifyPresentation", TRUE), Step("credential", TRUE)>>
            /\ ValidReplay(a) /\ a.pc = "done" =>
                 /\ \A k \in 1..Len(a.log) : a.log[k].ok
                 /\ a.responses =
                        << SuccessResponse(wallet.sub,
                               GenerateAuthToken(Authorize(claims), a.at).accessToken) >>

\* two requests carried the same presentation and each was answered with a
\* token
C18_Witness ==
    /\ \A i \in 1..MaxReq : ValidReplay(reqs[i]) /\ reqs[i].pc = "done"
    /\ \A i \in 1..MaxReq : TokenIssued(reqs[i])
    /\ reqs[1].vp = reqs[MaxReq].vp
    /\ reqs[1].at # reqs[MaxReq].at

\* C19: whatever requests were served, accepted or rejected, in whatever
\* interleaving, the policy rule set, the server's identity and signer, the
\* issuer's identity and signer and the server presentation are those of
\* startup.
C19_NoSharedWrites ==
    /\ policies = PolicyRules
    /\ server = InitializeServer(Epoch)
    /\ server.serverInitialized

\* time has passed, one request was accepted and one was rejected for a
\* policy violation
C19_Witness ==
    /\ \E i \in 1..MaxReq : reqs[i].pc = "done" /\ TokenIssued(reqs[i])
    /\ \E j \in 1..MaxReq :
           /\ reqs[j].pc = "done" /\ reqs[j].route = "/a2a/authenticate"
           /\ reqs[j].responses[1].status = 403
           /\ reqs[j].responses[1].error.kind = "policy violation"
    /\ now > Epoch

\* C23: a request without a presentation is answered 401 before any step
\* of the handler has run, and a presentation that verifies and embeds no
\* credential is answered 403 right after verification, on
\* /a2a/authenticate with the missing-credential message, before the
\* revocation and compliance checks; neither is answered with a token.
C23_MissingInputsRejected ==
    \A i \in 1..MaxReq :
        LET a == reqs[i]
        IN  /\ (a.pc = "done" /\ ~a.vp.has) =>
                 /\ a.responses =
                        << ErrorResponse(401, IF a.route = "/a2a/message"
                                              THEN AuthRequiredError
                                              ELSE VpRequiredError) >>
                 /\ a.log = <<>>
                 /\ a.revocationCalls = <<>>
                 /\ ~TokenIssued(a)
            /\ (a.vp.has /\ a.vp.sigOK /\ a.vp.verifiableCredential = <<>>) =>
                 /\ a.pc \in {"verifying", "done"}
                 /\ a.revocationCalls = <<>>
                 /\ a.complianceResult = NoCompliance
                 /\ ~TokenIssued(a)
                 /\ a.pc = "done" =>
                      /\ a.log = << Step("verifyPresentation", TRUE),
                                    Step("credential", FALSE) >>
                      /\ a.responses =
                             << ErrorResponse(403, IF a.route = "/a2a/message"
                                                   THEN InvalidSignatureError
                                                   ELSE MissingVcError) >>

\* one request came without a presentation and was answered 401, another
\* brought a verified presentation without a credential to
\* /a2a/authenticate and was answered 403
C23_Witness ==
    \E i, j \in 1..MaxReq :
        /\ reqs[i].pc = "done" /\ ~reqs[i].vp.has
        /\ reqs[i].responses[1].status = 401
        /\ reqs[j].pc = "done" /\ reqs[j].route = "/a2a/authenticate"
        /\ reqs[j].vp.has /\ reqs[j].vp.sigOK /\ reqs[j].vp.verifiableCredential = <<>>
        /\ reqs[j].responses[1].error = MissingVcError

-----------------------------------------------------------------------------
(* Round trip of the issued claims, under Spec *)

\* the presentation of the attempt passed verifyPresentation and the
\* credential the handler unpacked from it is the issued JWT
UnpackedIssued(a) ==
    /\ wallet.has
    /\ a.pc \in {"revoking", "done"}
    /\ ~VerifyPresentation(a.vp).threw
    /\ Len(a.vp.verifiableCredential) >= 1
    /\ a.vp.verifiableCredential[1] = wallet

-----------------------------------------------------------------------------
(* Further properties of /a2a/authenticate, under Spec *)

\* the presentation, or a credential it embeds, was changed after signing
Tampered(vpJwt) ==
    /\ vpJwt.has
    /\ \/ ~vpJwt.sigOK
       \/ \E i \in 1..Len(vpJwt.verifiableCredential) :
              ~vpJwt.verifiableCredential[i].sigOK

\* C21: a presentation that was changed after signing, or that embeds a
\* credential changed after signing, fails verification: the attempt is
\* answered with the verification error and never with a token.
C21_TamperDetected ==
    Tampered(att.vp) =>
        /\ ~TokenIssued(att)
        /\ att.pc = "done" => att.responses = <<ErrorResponse(403, VerifyError)>>

-----------------------------------------------------------------------------
(* Properties of the server's startup, under SpecBoot *)

\* C22: every agent card the server has sent carries the server's identity
\* and a server presentation that is present and signed, whenever the
\* request was handled.
C22_CardCarriesPresentation ==
    \A k \in 1..Len(boot.cards) :
        /\ boot.cards[k].did = ServerDID
        /\ boot.cards[k].serverVP.has
        /\ boot.cards[k].serverVP.sigOK
        /\ boot.cards[k].serverVP.verifiableCredential # <<>>

\* jwt is what the issuer hands out at clock reading t for holder h with
\* the specific type tag: subject and credentialSubject.id are h, it is
\* signed under the issuer's identity, the types are the base tag and the
\* specific one, and issuedAt and nbf are stamped with t
Envelope(jwt, h, tag, t) ==
    /\ jwt.has
    /\ jwt.sub = h
    /\ jwt.vc.credentialSubject.has
    /\ jwt.vc.credentialSubject.id = h
    /\ jwt.iss = server.issuer.did
    /\ jwt.iss = IssuerDID
    /\ jwt.sigOK
    /\ jwt.vc.type = TypeList(<<"VerifiableCredential", tag>>)
    /\ jwt.vc.credentialSubject.issuedAt = ToISOString(t)
    /\ jwt.nbf = t \div 1000

\* C25: whenever issueTaskLogVC or issueServiceEndpointVC hands out a
\* credential, its subject and credentialSubject.id are the holder it was
\* asked for, it is signed under the issuer's one identity, its types are
\* the base tag followed by TaskLogCredential or ServiceEndpointCredential,
\* and issuedAt and the not-before time are the clock at that moment.
C25_IssuedEnvelope ==
    [][ /\ wallet' # wallet =>
             \E h \in Holders : Envelope(wallet', h, "TaskLogCredential", now)
        /\ server'.serverVC # server.serverVC =>
             /\ Envelope(server'.serverVC, ServerDID, "ServiceEndpointCredential", now)
             /\ server'.serverVC.vc.credentialSubject.serviceEndpoint = ServiceUrl
        /\ server'.issuer = server.issuer ]_vars

\* both kinds of credential have been issued, at different moments
C25_Witness ==
    /\ wallet.has /\ wallet.sub = "did:H2"
    /\ server.serverVC.has
    /\ wallet.vc.credentialSubject.issuedAt # server.serverVC.vc.credentialSubject.issuedAt
    /\ wallet.nbf > server.serverVC.nbf

-----------------------------------------------------------------------------
(* Properties of the client's interceptor, under SpecFetch *)

\* the calls of customFetch for a url other than the agent card's
MessageCalls(f) == {k \in 1..Len(f.calls) : ~UrlIncludes(f.calls[k].url, "/agent-card")}

\* C26: every request handed to the interceptor leaves the client; the
\* agent-card request leaves without a presentation, every other request
\* with a presentation the client signed around a credential issued to it
\* at that call, one credential and one presentation per such request.
C26_FreshPresentationPerRequest ==
    /\ \A k \in 1..Len(fetches.calls) :
           LET c == fetches.calls[k]
           IN  /\ c.sent
               /\ UrlIncludes(c.url, "/agent-card") => ~c.vp.has
               /\ ~UrlIncludes(c.url, "/agent-card") =>
                      c.vp = PresentationJwt(fetches.didString, TRUE,
                                << ClientIssueTaskLogVC(fetches.didString,
                                                        TaskLog("OrderPizza"), c.at) >>)
    /\ fetches.issued = Cardinality(MessageCalls(fetches))
    /\ fetches.built = Cardinality(MessageCalls(fetches))

-----------------------------------------------------------------------------
(* Properties of the integration test, under SpecTest *)

\* the events of the run as a set, and the place of an event in the run
EventSet(t) == {t.events[k] : k \in 1..Len(t.events)}
Place(t, e) == CHOOSE k \in 1..Len(t.events) : t.events[k] = e

\* event a happened, and before event b
Before(t, a, b) == a \in EventSet(t) /\ Place(t, a) < Place(t, b)

\* C27 as stated: the server is spawned only after the chain has reported
\* the registry address and written the file, the client only after the
\* server has reported that it listens, and the test exits only after the
\* client has closed, with the client's exit code.
C27_StrictOrder ==
    /\ "spawn server" \in EventSet(test) =>
           /\ Before(test, "chain reports address", "spawn server")
           /\ Before(test, "chain writes file", "spawn server")
    /\ "spawn client" \in EventSet(test) =>
           Before(test, "server reports listening", "spawn client")
    /\ test.pc = "exited" =>
           /\ Before(test, "client closes", "exit")
           /\ ~test.close.signal
           /\ test.exitCode = test.close.code

\* C27, amended: the server is spawned only after the chain has reported
\* the registry address (the file is written by the statement after the
\* print and the test does not wait for it), the client only after the
\* server has reported that it listens, each process once; unless Ctrl+C
\* ends the test, it exits only after the client has closed, with the
\* client's exit code, or 0 when a signal ended the client; Ctrl+C ends it
\* at once with 0.
C27_OrderUnlessInterrupted ==
    /\ "spawn server" \in EventSet(test) =>
           Before(test, "chain reports address", "spawn server")
    /\ "chain writes file" \in EventSet(test) =>
           Before(test, "chain reports address", "chain writes file")
    /\ "server reports listening" \in EventSet(test) =>
           /\ Before(test, "spawn server", "server reports listening")
           /\ test.serverRead \in {"stale", "fresh"}
    /\ "spawn client" \in EventSet(test) =>
           Before(test, "server reports listening", "spawn client")
    /\ "client closes" \in EventSet(test) =>
           Before(test, "spawn client", "client closes")
    /\ \A e \in EventSet(test) :
           Cardinality({k \in 1..Len(test.events) : test.events[k] = e}) = 1
    /\ (test.pc = "exited") <=> ("exit" \in EventSet(test))
    /\ (test.pc = "exited" /\ ~test.sigint) =>
           /\ Before(test, "client closes", "exit")
           /\ test.exitCode = (IF test.close.signal THEN 0 ELSE test.close.code)
    /\ (test.pc = "exited" /\ test.sigint) => test.exitCode = 0

\* a run that was not interrupted: every process started in turn, the
\* client closed with code 1 and the test exited with 1
C27_Witness ==
    /\ test.pc = "exited" /\ ~test.sigint
    /\ test.events = << "spawn chain", "chain reports address", "chain writes file",
                        "spawn server", "server reports listening", "spawn client",
                        "client closes", "exit" >>
    /\ test.close = [signal |-> FALSE, code |-> 1]
    /\ test.exitCode = 1

-----------------------------------------------------------------------------
(* The grant of authorize, under SpecPolicy and Spec *)

\* the attempt went past the compliance check
PassedCompliance(a) ==
    \E i \in 1..Len(a.log) : a.log[i].step = "checkPolicyCompliance" /\ a.log[i].ok

\* the handler's branch after authorize is never taken, and an attempt that
\* passed the compliance check ends with a token
NoRejectionAfterCompliance(a) ==
    /\ \A i \in 1..Len(a.responses) : a.responses[i].error # NotAuthorizedError
    /\ (a.pc = "done" /\ PassedCompliance(a)) => TokenIssued(a)

\* C28: authorize returns a grant with authorized = true for every input;
\* the server never answers "not authorized" and every attempt whose
\* credential passed the compliance check is answered with a token.
C28_AlwaysAuthorized ==
    /\ call.fn = "authorize" => call.grant.authorized
    /\ NoRejectionAfterCompliance(att)

\* the part of C28 about the server alone
C28_ServerPart == NoRejectionAfterCompliance(att)

-----------------------------------------------------------------------------
(* The action of an issued token, under SpecActions *)

\* the action the attempt's credential declares
DeclaredAction(a) == TaskAction(CredentialSubject(a.credential))

\* the payload a holder of the answered token decodes
DecodedToken(a) == JsonParse(Base64Decode(a.responses[1].authToken))

\* C29: every whitelisted action has an entry in the permission table; for
\* every token issued, a declared (truthy) action is whitelisted and the
\* token carries it with the non-empty permission list of the table; with
\* no action declared (absent, undefined or the empty string) the action
\* rule raised no error and the token carries an empty permission list and
\* no action other than the empty value the credential held.
C29_TokenActionWhitelisted ==
    /\ \A k \in 1..Len(policies.allowedActions) :
           OwnPermissions(policies.allowedActions[k]) # <<>>
    /\ TokenIssued(att) =>
           LET act == DeclaredAction(att)
               tok == DecodedToken(att)
           IN  /\ Truthy(act) =>
                     /\ Includes(policies.allowedActions, act)
                     /\ tok.action = act
                     /\ tok.permissions = OwnPermissions(act)
                     /\ tok.permissions # <<>>
               /\ ~Truthy(act) =>
                     /\ ActionErrors(policies, CredentialSubject(att.credential)) = <<>>
                     /\ att.complianceResult.errors = <<>>
                     /\ tok.action = act
                     /\ tok.permissions = <<>>

\* a token was issued for the third whitelisted action
C29_Witness ==
    /\ TokenIssued(att)
    /\ DeclaredAction(att) = "UpdateProfile"
    /\ DecodedToken(att).permissions = <<"write:profile">>

-----------------------------------------------------------------------------
(* The identity of an issued token, under Spec *)

\* C30: for every token issued, the did of the token and the clientDid of
\* the response are the identity that signed the verified presentation.
C30_TokenNamesSigner ==
    TokenIssued(att) =>
        /\ att.vp.sigOK
        /\ DecodedToken(att).did = att.vp.iss
        /\ att.responses[1].clientDid = att.vp.iss

\* the same with the issued credential alone, no copy changed after signing
C30_GenuineCredentialOnly ==
    (TokenIssued(att) /\ att.vp.verifiableCredential[1] = wallet) =>
        /\ DecodedToken(att).did = att.vp.iss
        /\ att.responses[1].clientDid = att.vp.iss

-----------------------------------------------------------------------------
(* The issuer of an accepted credential, under SpecIssuers *)

\* the issuer identity the agent card advertises
AdvertisedIssuer == AgentCard(server, now).issuerDID

\* C31: a token is issued only for a credential whose issuer is the issuer
\* identity of the agent card; a credential signed by any other identity,
\* self-issued ones included, never leads to a token.
C31_OnlyAdvertisedIssuer ==
    TokenIssued(att) => att.vp.verifiableCredential[1].iss = AdvertisedIssuer

-----------------------------------------------------------------------------
(* The position of the credential that decides, under SpecPositions *)

\* the presentation with the credentials behind the first one left out
FirstOnly(vp) == PresentationJwt(vp.iss, vp.sigOK, <<vp.verifiableCredential[1]>>)

\* the whole handler run on vpJwt, its second half at clock reading t
HandlerOutcome(vpJwt, t) ==
    LET a == AfterVerify(Receive(vpJwt))
    IN  IF a.pc = "revoking" THEN AfterRevocation(a, policies, t) ELSE a

\* C32: a finished attempt on a presentation that embeds credentials has
\* the log, the revocation call, the compliance result, the grant and the
\* response of the attempt on the same presentation with the first
\* credential alone; the credentials behind it change nothing.
C32_FirstCredentialDecides ==
    (att.pc = "done" /\ att.vp.has /\ Len(att.vp.verifiableCredential) >= 1) =>
        LET b == HandlerOutcome(FirstOnly(att.vp), att.at)
        IN  /\ att.log = b.log
            /\ att.revocationCalls = b.revocationCalls
            /\ att.credential = b.credential
            /\ att.complianceResult = b.complianceResult
            /\ att.authResult = b.authResult
            /\ att.responses = b.responses

\* a token was issued for a first credential with an allowed action while
\* the second credential declares an action that is not allowed
C32_Witness ==
    /\ TokenIssued(att)
    /\ Len(att.vp.verifiableCredential) = 2
    /\ att.vp.verifiableCredential[1] = wallet
    /\ DeclaredAction(att) = "OrderPizza"
    /\ att.vp.verifiableCredential[2].vc.credentialSubject.taskLog = TaskLog("DeleteAccount")

-----------------------------------------------------------------------------
(* The limit of the freshness rule, under SpecPolicy *)

\* the expiry rule on a returned result: an expiry violation, and only one,
\* exactly when issuedAt is a parseable date more than maxVCAge seconds
\* before clock reading t; it carries the whole seconds of the age
ExpiryExact(claims, t, result) ==
    LET d == CredentialSubject(claims).issuedAt
        ageMs == t - d.ms
        expired == d.kind = "iso" /\ ageMs > MaxVCAge * 1000
    IN  /\ ErrorsOf(result, "expired") = (IF expired THEN 1 ELSE 0)
        /\ expired => \E i \in 1..Len(result.errors) :
                          result.errors[i] = Violation("expired", "", ageMs \div 1000)
        /\ (d.kind = "iso" /\ ageMs = MaxVCAge * 1000) => ErrorsOf(result, "expired") = 0
        /\ (d.kind = "iso" /\ ageMs < 0) => ErrorsOf(result, "expired") = 0
        /\ d.kind \in {"absent", "invalid"} => ErrorsOf(result, "expired") = 0

-----------------------------------------------------------------------------
(* The two kinds of credential the issuer produces, under SpecKinds *)

\* the attempt's presentation verified and its first credential is jwt
Presented(a, jwt) ==
    /\ a.vp.has /\ a.vp.sigOK
    /\ Len(a.vp.verifiableCredential) >= 1
    /\ a.vp.verifiableCredential[1] = jwt

\* jwt is a TaskLog credential as issueTaskLogVC produces it, with a
\* whitelisted action, not older than maxVCAge at clock reading t
FreshAllowedTaskLog(jwt, t) ==
    \E h \in Holders, k \in 1..Len(policies.allowedActions), T \in ReplayClockValues :
        /\ jwt = IssueTaskLogVC(h, TaskLog(policies.allowedActions[k]), T)
        /\ t - T <= MaxVCAge * 1000

-----------------------------------------------------------------------------
(* The revocation stub, under SpecKinds *)

NotRevoked == [revoked |-> FALSE, reason |-> Undef]

\* the attempt's log holds the named step
HasLogStep(a, step) == \E i \in 1..Len(a.log) : a.log[i].step = step

\* C35: checkRevocationStatus answers not revoked, with no reason, for
\* every credential it is handed and whatever the state; no attempt is
\* answered with the revocation error, and every attempt that reached the
\* revocation check goes on to the compliance check.
C35_NeverRevoked ==
    /\ CheckRevocationStatus(NormalizeCredential(wallet)) = NotRevoked
    /\ CheckRevocationStatus(NormalizeCredential(server.serverVC)) = NotRevoked
    /\ \A i \in 1..Len(att.revocationCalls) :
           CheckRevocationStatus(att.revocationCalls[i]) = NotRevoked
    /\ att.revocationStatus = NotRevoked
    /\ \A i \in 1..Len(att.log) :
           att.log[i].step = "checkRevocationStatus" => att.log[i].ok
    /\ \A i \in 1..Len(att.responses) : att.responses[i].error.kind # "VC revoked"
    /\ (att.pc = "done" /\ att.revocationCalls # <<>>) =>
           HasLogStep(att, "checkPolicyCompliance")

\* an attempt was refused, past the revocation check, by the compliance
\* check
C35_Witness ==
    /\ att.pc = "done"
    /\ Len(att.revocationCalls) = 1
    /\ HasLogStep(att, "checkRevocationStatus")
    /\ att.responses[1].status = 403
    /\ att.responses[1].error.kind = "policy violation"

-----------------------------------------------------------------------------
(* The task that is dispatched, under SpecTask *)

\* C36: a task is answered with success only when taskType is a whitelisted
\* action and is the action of the presented token.
C36_TaskMatchesToken ==
    (task.pc = "done" /\ task.response.status = 200 /\ task.response.success) =>
        /\ Includes(policies.allowedActions, task.taskType)
        /\ task.authToken.enc = "base64"
        /\ JsonParse(Base64Decode(task.authToken)).action = task.taskType

\* the same for tokens the server issued alone, any other string as a token
\* set aside
C36_IssuedTokenMatches ==
    (task.pc = "done" /\ task.response.status = 200 /\ task.response.success
     /\ task.authToken \in IssuedTokens(task.at)) =>
        /\ Includes(policies.allowedActions, task.taskType)
        /\ JsonParse(Base64Decode(task.authToken)).action = task.taskType

-----------------------------------------------------------------------------
(* The browser page's task request and start button, under SpecBrowser *)

\* C37: a /ai/task request leaves the page only after an ok answer of
\* /a2a/authenticate and carries the token of that answer; a run in which a
\* step of the handshake failed sends none; the start button is disabled
\* while a run is under way and enabled again whenever a run has ended,
\* whatever its outcome.
C37_TaskOnlyAfterSuccess ==
    /\ Len(page.taskRequests) <= 1
    /\ \A k \in 1..Len(page.taskRequests) :
           /\ client.response.status = 200
           /\ HasStep(client, "TokenReceived", TRUE)
           /\ TokenIssued(att)
           /\ page.taskRequests[k] = TaskRequest(att.responses[1].authToken, "OrderPizza")
    /\ page.pc \in {"dispatching", "awaitingTask"} => client.response.status = 200
    /\ client.pc = "failed" =>
           /\ page.taskRequests = <<>>
           /\ page.pc = "ended"
    /\ page.pc \in {"handshake", "dispatching", "awaitingTask"} => page.startBtnDisabled
    /\ page.pc \in {"idle", "ended"} => ~page.startBtnDisabled

\* a run ended after its task was sent with the token received and the
\* result was shown; the button is enabled
C37_Witness ==
    /\ page.pc = "ended"
    /\ Len(page.taskRequests) = 1
    /\ page.taskRequests[1].authToken = client.token
    /\ TokenTruthy(client.token)
    /\ page.taskShown
    /\ ~page.startBtnDisabled

====
